---- MODULE Spec2Model ----
(***************************************************************************)
(* gh-forecast: the fetch pipeline (repositories -> workflow runs -> jobs), *)
(* its file cache, and the billing aggregation, as state machines.          *)
(*                                                                         *)
(*   SpecCache    the Cache Store called directly (getCache, setCache,     *)
(*                clearCache) on a file system whose clock advances         *)
(*   SpecBilling  the pure functions of billing.ts and the job filter of    *)
(*                listRunJobs applied to inputs drawn from bounded sets     *)
(*   Spec         invocations of run(): the three tiers with their p-limit  *)
(*                worker pools, the cache and the aggregation               *)
(*   SpecJob      processJob on one drawn job and mapping list              *)
(*   SpecClient   one request through the client of createOctokit           *)
(*   SpecRun      run() on a drawn command line: options, date range,       *)
(*                header, authentication, the tiers, the report             *)
(*   SpecOrder    Spec on a writable cache directory, keeping the order in  *)
(*                which the tasks resolve                                   *)
(*   SpecFetch    fetchAllJobs on drawn run lists, every listing answered   *)
(*   SpecList     listWorkflowRuns and listRunJobs on drawn pages           *)
(*   SpecPattern  matchesPattern on a drawn override and label              *)
(*   SpecPeriod   groupByPeriod on a drawn byDate record                    *)
(*   SpecShared   getCache and setCache of two invocations, interleaved     *)
(*                file system call by file system call, on one key          *)
(***************************************************************************)
EXTENDS Integers, Sequences, FiniteSets, TLC

(***************************************************************************)
(* Bounds of the model                                                     *)
(***************************************************************************)
\* the clock runs from 0 to MaxTime
MaxTime == 2
\* the largest ttl handed to a cache call
MaxTtl == 1
\* the longest array handed to setCache in SpecCache
MaxData == 1
\* the longest job list handed to aggregateBilling in SpecBilling
MaxJobs == 3
\* the most repositories the organization holds
MaxRepos == 3
\* the largest --concurrency
MaxConcurrency == 2
\* the most invocations of run() in a behaviour
MaxInvocations == 2
\* the most listings the server fails in a behaviour
MaxFailures == 1
\* the size of a page (per_page is 100; the server of the model holds few items)
PerPage == 1
\* the most items the API holds for one listing drawn (SpecList)
MaxItems == 3
\* the most entries of a byDate record drawn (SpecPeriod)
MaxDays == 3

VARIABLES
  \* ---- the file system under ~/.gh-forecast-cache and the clock
  cacheFiles,   \* path -> content of the file, for the files that exist
  dirExists,    \* whether the cache directory exists
  storage,      \* "rw": every fs call succeeds; "ro": mkdir, write and unlink throw
  now,          \* Date.now()
  \* ---- the last direct call of the Cache Store (SpecCache)
  call,
  sinceSet,     \* path -> the last setCache on it, while nothing else touched the path
  stale,        \* paths a getCache found outdated, until the next setCache on them
  \* ---- direct calls of the job listing and of the Billing Aggregator (SpecBilling)
  bpc,          \* "input", "fetched", "aggregated" or "estimated"
  bInput,       \* the job list drawn: the jobs the API holds, or aggregateBilling's input
  bRuns,        \* the run list handed to fetchAllJobs
  bMappings,    \* the custom label mappings
  bListed,      \* what listRunJobs returned for each run of BillingRuns
  bFetched,     \* what fetchAllJobs returned for the jobs the API holds
  bArg,         \* the job list handed to aggregateBilling
  bResult,      \* what aggregateBilling returned
  bCost,        \* what estimateCost returned for bResult
  \* ---- one call of processJob (SpecJob)
  processed,    \* the job and the mappings drawn, and the BillingResult
  \* ---- one call of a function on drawn arguments (SpecList, SpecPattern, SpecPeriod)
  fnCall,       \* the function called, its arguments and what it returned (SpecShared:
                \* the calls under way in the two invocations)
  \* ---- invocations of run() (Spec, SpecRun)
  pc,           \* where run() stands: "idle" between invocations
  inv,          \* the number of invocations started
  world,        \* the server and the command line: nRepos, concurrency, range
  opts,         \* fetchOptions, concurrency and the date range of this invocation
  failures,     \* the number of listings the server has failed
  listing,      \* listOrgRepos: [repos so far, page requested]
  repoList,     \* what listOrgRepos returned (run's repos)
  runW,         \* fetchOrgWorkflowRuns: per repository, [st, result, failed] of its task
  runList,      \* what fetchOrgWorkflowRuns returned (run's runs)
  jobW,         \* fetchAllJobs: per run, [st, result, failed] of its task
  jobList,      \* what fetchAllJobs returned (run's jobs)
  tier,         \* per tier of this invocation: requests sent, cache reads and writes,
                \* cache hit, progress callbacks, the completed counter
  outcome,      \* how the last invocation ended, with the report it printed
  \* ---- one request through the client of createOctokit (SpecClient)
  client        \* the attempts, the counters of the two plugins, the handler calls

cacheVars == <<cacheFiles, dirExists, storage, now>>
harnessVars == <<call, sinceSet, stale>>
billingData == <<bpc, bInput, bRuns, bMappings, bListed, bFetched, bArg, bResult, bCost, processed>>
billingVars == <<bpc, bInput, bRuns, bMappings, bListed, bFetched, bArg, bResult, bCost, processed,
                 fnCall>>
pipeVars == <<pc, inv, world, opts, failures, listing, repoList, runW, runList, jobW, jobList, tier,
              outcome>>
vars == <<cacheFiles, dirExists, storage, now, call, sinceSet, stale,
          bpc, bInput, bRuns, bMappings, bListed, bFetched, bArg, bResult, bCost, processed,
          fnCall,
          pc, inv, world, opts, failures, listing, repoList, runW, runList, jobW, jobList, tier,
          outcome, client>>

\* the variables of a specification that does not use them
PipeOff ==
  /\ pc = "off" /\ inv = 0 /\ world = << >> /\ opts = << >> /\ failures = 0 /\ listing = << >>
  /\ repoList = << >> /\ runW = << >> /\ runList = << >> /\ jobW = << >> /\ jobList = << >>
  /\ tier = << >> /\ outcome = << >>
ClientOff == client = [phase |-> "off"]
JobOff == processed = [phase |-> "off"]
FnOff == fnCall = [phase |-> "off"]
BillingOff ==
  /\ bpc = "off" /\ bInput = << >> /\ bRuns = << >> /\ bMappings = << >> /\ bListed = << >>
  /\ bFetched = << >>
  /\ bArg = << >> /\ bResult = << >> /\ bCost = << >>
  /\ JobOff /\ FnOff


(***************************************************************************)
(* Values                                                                  *)
(***************************************************************************)
\* JavaScript's undefined and null as field values
Undefined == "<undefined>"
Null == "<null>"

\* reading property f of object r: a missing property reads as undefined
Field(r, f) == IF f \in DOMAIN r THEN r[f] ELSE Undefined

\* a null timestamp (completed_at of a job that has not completed)
NoTime == [null |-> TRUE]
IsNullTime(t) == "null" \in DOMAIN t

RECURSIVE JoinWith(_, _)
\* Array.prototype.join
JoinWith(parts, sep) ==
  IF Len(parts) = 0 THEN ""
  ELSE IF Len(parts) = 1 THEN parts[1]
  ELSE parts[1] \o sep \o JoinWith(Tail(parts), sep)

(***************************************************************************)
(* Cache Store (cache.ts)                                                  *)
(***************************************************************************)
CACHE_VERSION == "1"

\* the properties declared optional or nullable strings (WorkflowRun.name,
\* run_started_at, JobWithRepo.workflow_name): the ones that may hold undefined
OptionalFields == {"name", "run_started_at", "workflow_name"}

IsUndefined(r, f) == f \in OptionalFields /\ r[f] = Undefined

\* JSON.stringify of an object: a property whose value is undefined is left out
StringifyObject(r) == [f \in {g \in DOMAIN r : ~IsUndefined(r, g)} |-> r[f]]

\* JSON.stringify of the data array followed by JSON.parse
StringifyData(data) == [i \in 1..Len(data) |-> StringifyObject(data[i])]

\* an array survives JSON unchanged iff no element has an undefined property
IsJSON(data) == \A i \in 1..Len(data) : \A f \in DOMAIN data[i] : ~IsUndefined(data[i], f)

\* the content of a file that JSON.parse rejects (a torn or foreign file)
Garbage == [kind |-> "garbage"]

\* a file that readFileSync cannot read
Unreadable == [kind |-> "unreadable"]

\* the content written by writeFileSync(cachePath, JSON.stringify(entry))
JsonFile(entry) ==
  [kind |-> "json", version |-> entry.version, timestamp |-> entry.timestamp,
   ttlMs |-> entry.ttlMs, data |-> StringifyData(entry.data)]

\* the file system as one value
FS == [dir |-> dirExists, files |-> cacheFiles, mode |-> storage]

\* ensureCacheDir: mkdirSync when the directory is missing; ok = it did not throw
ensureCacheDir(fs) ==
  IF fs.dir THEN [ok |-> TRUE, fs |-> fs]
  ELSE IF fs.mode = "rw" THEN [ok |-> TRUE, fs |-> [fs EXCEPT !.dir = TRUE]]
  ELSE [ok |-> FALSE, fs |-> fs]

\* md5 of the parts joined by "|", taken as injective on the joined string
getCacheKey(parts) == JoinWith(parts, "|")

getCachePath(key) == key \o ".json"

\* unlinkSync(path): ok = it did not throw
Unlink(fs, path) ==
  IF fs.mode = "rw"
  THEN [ok |-> TRUE, fs |-> [fs EXCEPT !.files = [p \in DOMAIN fs.files \ {path} |-> fs.files[p]]]]
  ELSE [ok |-> FALSE, fs |-> fs]

Miss(fs) == [hit |-> FALSE, data |-> <<>>, fs |-> fs]

\* the catch of getCache answers a file it cannot read or parse with an empty array
getCacheLenient(fs0, keyParts, ttlMs, t) ==
  LET d == ensureCacheDir(fs0)
      fs == d.fs
      cachePath == getCachePath(getCacheKey(keyParts))
  IN IF ~d.ok THEN Miss(fs)
     ELSE IF cachePath \notin DOMAIN fs.files THEN Miss(fs)
     ELSE LET entry == fs.files[cachePath]
          IN IF entry.kind # "json" THEN [hit |-> TRUE, data |-> << >>, fs |-> fs]
             ELSE IF entry.version # CACHE_VERSION THEN Miss(Unlink(fs, cachePath).fs)
             ELSE IF t - entry.timestamp > ttlMs THEN Miss(Unlink(fs, cachePath).fs)
             ELSE [hit |-> TRUE, data |-> entry.data, fs |-> fs]

\* the lookup never finds an entry
getCacheNever(fs0, keyParts, ttlMs, t) == Miss(fs0)

\* getCache testing the age against the ttlMs stored in the entry
getCacheStoredTtl(fs0, keyParts, ttlMs, t) ==
  LET d == ensureCacheDir(fs0)
      fs == d.fs
      cachePath == getCachePath(getCacheKey(keyParts))
  IN IF ~d.ok THEN Miss(fs)
     ELSE IF cachePath \notin DOMAIN fs.files THEN Miss(fs)
     ELSE LET entry == fs.files[cachePath]
          IN IF entry.kind # "json" THEN Miss(fs)
             ELSE IF entry.version # CACHE_VERSION THEN Miss(Unlink(fs, cachePath).fs)
             ELSE IF t - entry.timestamp > entry.ttlMs THEN Miss(Unlink(fs, cachePath).fs)
             ELSE [hit |-> TRUE, data |-> entry.data, fs |-> fs]

\* getCache: hit = FALSE is the null it returns (the arrays the program stores are
\* truthy, so a caller's `if (cached)` is `hit`)
getCache(fs0, keyParts, ttlMs, t) ==
  LET d == ensureCacheDir(fs0)
      fs == d.fs
      cachePath == getCachePath(getCacheKey(keyParts))
  IN IF ~d.ok THEN Miss(fs)
     ELSE IF cachePath \notin DOMAIN fs.files THEN Miss(fs)
     ELSE LET entry == fs.files[cachePath]
          IN IF entry.kind # "json" THEN Miss(fs)
             ELSE IF entry.version # CACHE_VERSION THEN Miss(Unlink(fs, cachePath).fs)
             ELSE IF t - entry.timestamp > ttlMs THEN Miss(Unlink(fs, cachePath).fs)
             ELSE [hit |-> TRUE, data |-> entry.data, fs |-> fs]

\* writeFileSync with flag 'wx': an existing file is kept (the throw is swallowed)
WriteFileExclusive(fs, path, content) ==
  IF fs.mode = "rw" /\ path \notin DOMAIN fs.files
  THEN [fs EXCEPT !.files = [p \in DOMAIN fs.files \cup {path} |->
                               IF p = path THEN content ELSE fs.files[p]]]
  ELSE fs

\* writeFileSync(path, content): throws on a read-only directory
WriteFile(fs, path, content) ==
  IF fs.mode = "rw"
  THEN [fs EXCEPT !.files = [p \in DOMAIN fs.files \cup {path} |->
                               IF p = path THEN content ELSE fs.files[p]]]
  ELSE fs

\* setCache: the file system after it
setCache(fs0, keyParts, data, ttlMs, t) ==
  LET d == ensureCacheDir(fs0)
      cachePath == getCachePath(getCacheKey(keyParts))
      entry == [version |-> CACHE_VERSION, timestamp |-> t, ttlMs |-> ttlMs, data |-> data]
  IN IF ~d.ok THEN d.fs
     ELSE WriteFile(d.fs, cachePath, JsonFile(entry))

\* clearCache: every .json file of the directory is unlinked, until one unlink throws
clearCache(fs) ==
  IF ~fs.dir THEN [filesDeleted |-> 0, fs |-> fs]
  ELSE IF fs.mode = "rw"
  THEN [filesDeleted |-> Cardinality(DOMAIN fs.files), fs |-> [fs EXCEPT !.files = << >>]]
  ELSE [filesDeleted |-> 0, fs |-> fs]

(***************************************************************************)
(* The listings of api.ts as functions of the pages the server answers     *)
(*                                                                         *)
(* pages: the responses of octokit.paginate.iterator in order, each        *)
(* [ok |-> TRUE, data |-> items] or [ok |-> FALSE] (the request throws)    *)
(***************************************************************************)
RECURSIVE Flatten(_)
\* for (const x of results) all.push(...x)
Flatten(results) ==
  IF Len(results) = 0 THEN << >> ELSE Head(results) \o Flatten(Tail(results))

AllPagesOk(pages) == \A i \in 1..Len(pages) : pages[i].ok

PageItems(pages) == Flatten([i \in 1..Len(pages) |-> pages[i].data])

\* the properties listRunJobs copies from an API job
WorkflowJobFields == {"id", "run_id", "started_at", "completed_at", "labels"}
WorkflowJob(job) == [f \in WorkflowJobFields |-> job[f]]

ToWorkflowJobs(items) == [i \in 1..Len(items) |-> WorkflowJob(items[i])]

\* `if (job.completed_at)`
HasCompleted(job) == ~IsNullTime(job.completed_at)

\* the completed jobs of the pages received before the failing one are returned
listRunJobsPartial(pages) ==
  ToWorkflowJobs(SelectSeq(PageItems(SelectSeq(pages, LAMBDA p : p.ok)), HasCompleted))

\* listRunJobs: the completed jobs of all pages, or [] when a page request throws
listRunJobs(pages) ==
  IF ~AllPagesOk(pages) THEN << >>
  ELSE ToWorkflowJobs(SelectSeq(PageItems(pages), HasCompleted))

\* the jobs.map with `run.name || 'unknown'` for the workflow name
JobsWithRepoNamed(run, jobs) ==
  [i \in 1..Len(jobs) |->
     jobs[i] @@ [repo_full_name |-> run.repository.full_name,
                 workflow_name |-> IF Field(run, "name") \in {Null, Undefined, ""}
                                   THEN "unknown" ELSE run.name]]

\* the jobs.map of a fetchAllJobs task
JobsWithRepo(run, jobs) ==
  [i \in 1..Len(jobs) |->
     jobs[i] @@ [repo_full_name |-> run.repository.full_name,
                 workflow_name |-> Field(run, "name")]]

(***************************************************************************)
(* JavaScript Numbers that are no integers                                 *)
(*                                                                         *)
(* A natural number of any size is the sequence of its digits to the base  *)
(* Base, least significant first, without leading zeros. A Number x >= 0   *)
(* is [sig, exp] with x = sig * 2^exp and sig of exactly Precision binary  *)
(* digits (IEEE 754 binary64, normal range), or Zero.                      *)
(***************************************************************************)
\* the binary digits of one digit of a natural number
DigitBits == 15
Base == 2^DigitBits

RECURSIVE BigOf(_)
BigOf(n) == IF n = 0 THEN << >> ELSE <<n % Base>> \o BigOf(n \div Base)

BigDigit(a, i) == IF i \in 1..Len(a) THEN a[i] ELSE 0

RECURSIVE BigTrim(_)
BigTrim(a) ==
  IF Len(a) > 0 /\ a[Len(a)] = 0 THEN BigTrim(SubSeq(a, 1, Len(a) - 1)) ELSE a

RECURSIVE AddFrom(_, _, _, _)
\* the digits of a + b from digit i on, c the carry into digit i
AddFrom(a, b, i, c) ==
  IF i > Len(a) /\ i > Len(b) THEN (IF c > 0 THEN <<c>> ELSE << >>)
  ELSE LET sum == BigDigit(a, i) + BigDigit(b, i) + c
       IN <<sum % Base>> \o AddFrom(a, b, i + 1, sum \div Base)

BigAdd(a, b) == AddFrom(a, b, 1, 0)

RECURSIVE TimesFrom(_, _, _, _)
\* the digits of a * m from digit i on, c the carry into digit i, for m <= Base
TimesFrom(a, m, i, c) ==
  IF i > Len(a) THEN (IF c > 0 THEN <<c>> ELSE << >>)
  ELSE LET prod == a[i] * m + c
       IN <<prod % Base>> \o TimesFrom(a, m, i + 1, prod \div Base)

\* a * Base^k
BigShiftDigits(a, k) == IF Len(a) = 0 THEN << >> ELSE [i \in 1..k |-> 0] \o a

\* a * 2^k
BigShift(a, k) ==
  BigShiftDigits(BigTrim(TimesFrom(a, 2^(k % DigitBits), 1, 0)), k \div DigitBits)

RECURSIVE BigTimes(_, _)
\* a * n for an integer n >= 0
BigTimes(a, n) ==
  IF n = 0 THEN << >>
  ELSE BigAdd(BigTrim(TimesFrom(a, n % Base, 1, 0)),
              BigShiftDigits(BigTimes(a, n \div Base), 1))

RECURSIVE LeqFrom(_, _, _)
LeqFrom(a, b, i) ==
  IF i = 0 THEN TRUE ELSE IF a[i] # b[i] THEN a[i] < b[i] ELSE LeqFrom(a, b, i - 1)

\* a <= b
BigLeq(a, b) == IF Len(a) # Len(b) THEN Len(a) < Len(b) ELSE LeqFrom(a, b, Len(a))

RECURSIVE DivFrom(_, _, _, _)
\* long division of the digits i..1 of a by the integer d <= Base, r the remainder
\* so far: the digits of the quotient and the remainder
DivFrom(a, d, i, r) ==
  IF i = 0 THEN <<<< >>, r>>
  ELSE LET cur == r * Base + a[i]
           rest == DivFrom(a, d, i - 1, cur % d)
       IN <<Append(rest[1], cur \div d), rest[2]>>

\* [q, r] with a = q * d + r and r < d
BigDiv(a, d) == LET x == DivFrom(a, d, Len(a), 0) IN [q |-> BigTrim(x[1]), r |-> x[2]]

\* floor(a / 2^k)
BigShiftRight(a, k) ==
  IF k \div DigitBits >= Len(a) THEN << >>
  ELSE BigDiv(SubSeq(a, k \div DigitBits + 1, Len(a)), 2^(k % DigitBits)).q

RECURSIVE BitsOf(_)
\* the number of binary digits of an integer
BitsOf(n) == IF n = 0 THEN 0 ELSE 1 + BitsOf(n \div 2)

\* the number of binary digits of a
BigBits(a) == IF Len(a) = 0 THEN 0 ELSE DigitBits * (Len(a) - 1) + BitsOf(a[Len(a)])

\* the binary digit i of a, the least significant being digit 1
BigBit(a, i) == (BigDigit(a, (i - 1) \div DigitBits + 1) \div 2^((i - 1) % DigitBits)) % 2

\* the binary digits of a binary64 significand
Precision == 53

Zero == [sig |-> << >>, exp |-> 0]

\* the Number nearest to (n + f) * 2^e, ties to the even significand; below says
\* whether the fraction f in [0, 1) is above 0 (n then has more than Precision digits)
RoundToNumber(n, e, below) ==
  IF Len(n) = 0 THEN Zero
  ELSE IF BigBits(n) <= Precision
  THEN [sig |-> BigShift(n, Precision - BigBits(n)), exp |-> e - (Precision - BigBits(n))]
  ELSE LET drop == BigBits(n) - Precision
           kept == BigShiftRight(n, drop)
           half == BigBit(n, drop) = 1
           more == below \/ \E i \in 1..(drop - 1) : BigBit(n, i) = 1
           r == IF half /\ (more \/ BigBit(kept, 1) = 1) THEN BigAdd(kept, <<1>>) ELSE kept
       IN IF BigBits(r) > Precision THEN [sig |-> BigShiftRight(r, 1), exp |-> e + drop + 1]
          ELSE [sig |-> r, exp |-> e + drop]

\* the binary digits a decimal literal is expanded to before it is rounded
LiteralBits == 90

\* the value of the decimal literal that denotes num / den
NumberLiteral(num, den) ==
  LET x == BigDiv(BigShift(BigOf(num), LiteralBits), den)
  IN RoundToNumber(x.q, -LiteralBits, x.r # 0)

\* x * n for a Number x and a Number n that holds an integer
NumberTimes(x, n) == IF x = Zero THEN Zero ELSE RoundToNumber(BigTimes(x.sig, n), x.exp, FALSE)

\* x + y
NumberPlus(x, y) ==
  IF x = Zero THEN y
  ELSE IF y = Zero THEN x
  ELSE LET e == IF x.exp < y.exp THEN x.exp ELSE y.exp
       IN RoundToNumber(BigAdd(BigShift(x.sig, x.exp - e), BigShift(y.sig, y.exp - e)), e, FALSE)

(***************************************************************************)
(* Billing Aggregator (billing.ts)                                         *)
(*                                                                         *)
(* A label or a pattern is the sequence of its characters. A timestamp     *)
(* "YYYY-MM-DDTHH:MM:SS.sssZ" is [day, ms]: day numbers its date part (the  *)
(* text before the T), ms is the time of day in milliseconds.              *)
(***************************************************************************)
OSTypes == {"linux", "windows", "macos", "unknown"}

MULTIPLIERS == [os \in OSTypes |-> CASE os = "linux" -> 1 [] os = "windows" -> 2
                                     [] os = "macos" -> 10 [] os = "unknown" -> 1]

DEFAULT_PATTERNS ==
  << [pattern |-> <<"u","b","u","n","t","u">>, os |-> "linux"],
     [pattern |-> <<"l","i","n","u","x">>, os |-> "linux"],
     [pattern |-> <<"w","i","n","d","o","w","s">>, os |-> "windows"],
     [pattern |-> <<"w","i","n">>, os |-> "windows"],
     [pattern |-> <<"m","a","c","o","s">>, os |-> "macos"],
     [pattern |-> <<"m","a","c">>, os |-> "macos"],
     [pattern |-> <<"d","a","r","w","i","n">>, os |-> "macos"] >>

\* String.prototype.toLowerCase on one character (the upper-case letters in use)
LowerChar(c) == CASE c = "U" -> "u" [] c = "W" -> "w" [] c = "M" -> "m" [] c = "R" -> "r"
                  [] OTHER -> c
toLowerCase(str) == [i \in 1..Len(str) |-> LowerChar(str[i])]

\* String.prototype.includes
includes(str, sub) ==
  \E i \in 0..(Len(str) - Len(sub)) : \A j \in 1..Len(sub) : str[i + j] = sub[j]

\* the characters the first replace of matchesPattern escapes
RegexEscaped == {".", "+", "^", "$", "{", "}", "(", ")", "|", "[", "]", "\\"}

RECURSIVE RegexTokens(_, _)
\* the regular expression matchesPattern builds, as a sequence of atoms, each with a
\* quantifier: "*" gives .* and an escaped or plain character gives itself once; a "?"
\* is not escaped, so it makes the atom before it optional (after .* or after an
\* optional atom it only makes it lazy). acc = the atoms so far; ok = FALSE when
\* new RegExp throws (a "?" with nothing to repeat)
RegexTokens(pattern, acc) ==
  IF Len(pattern) = 0 THEN [ok |-> TRUE, atoms |-> acc.atoms]
  ELSE LET c == Head(pattern)
           n == Len(acc.atoms)
       IN IF c = "*"
          THEN RegexTokens(Tail(pattern),
                 [atoms |-> Append(acc.atoms, [any |-> TRUE, q |-> "star"]), lazy |-> FALSE])
          ELSE IF c = "?"
          THEN IF n = 0 \/ acc.lazy THEN [ok |-> FALSE, atoms |-> << >>]
               ELSE IF acc.atoms[n].q = "one"
               THEN RegexTokens(Tail(pattern),
                      [atoms |-> [acc.atoms EXCEPT ![n].q = "opt"], lazy |-> FALSE])
               ELSE RegexTokens(Tail(pattern), [atoms |-> acc.atoms, lazy |-> TRUE])
          ELSE RegexTokens(Tail(pattern),
                 [atoms |-> Append(acc.atoms, [any |-> FALSE, c |-> c, q |-> "one"]),
                  lazy |-> FALSE])

AtomMatches(atom, ch) == atom.any \/ LowerChar(atom.c) = LowerChar(ch)

RECURSIVE RegexTest(_, _)
\* /^atoms$/i.test(str)
RegexTest(atoms, str) ==
  IF Len(atoms) = 0 THEN Len(str) = 0
  ELSE LET a == Head(atoms)
       IN CASE a.q = "one" ->
                 Len(str) > 0 /\ AtomMatches(a, Head(str)) /\ RegexTest(Tail(atoms), Tail(str))
            [] a.q = "opt" ->
                 \/ RegexTest(Tail(atoms), str)
                 \/ Len(str) > 0 /\ AtomMatches(a, Head(str)) /\ RegexTest(Tail(atoms), Tail(str))
            [] a.q = "star" ->
                 \/ RegexTest(Tail(atoms), str)
                 \/ Len(str) > 0 /\ AtomMatches(a, Head(str)) /\ RegexTest(atoms, Tail(str))

\* matchesPattern: [threw |-> new RegExp threw, matches |-> the test's result]
matchesPattern(label, pattern) ==
  LET re == RegexTokens(pattern, [atoms |-> << >>, lazy |-> FALSE])
  IN IF ~re.ok THEN [threw |-> TRUE, matches |-> FALSE]
     ELSE [threw |-> FALSE, matches |-> RegexTest(re.atoms, label)]

\* the (mapping, label) pairs in the order of detectOS's nested loops
LoopPairs(nMappings, nLabels) ==
  [k \in 1..(nMappings * nLabels) |-> [m |-> ((k - 1) \div nLabels) + 1,
                                        l |-> ((k - 1) % nLabels) + 1]]

\* detectOS with the two loops exchanged: the built-in table is tested first
detectOSDefaultsFirst(labels, customMappings) ==
  LET lowerLabels == [i \in 1..Len(labels) |-> toLowerCase(labels[i])]
      builtIn == {k \in 1..Len(DEFAULT_PATTERNS) :
                    \E i \in 1..Len(labels) : includes(lowerLabels[i], DEFAULT_PATTERNS[k].pattern)}
      custom == {k \in 1..Len(customMappings) :
                   \E i \in 1..Len(labels) :
                      matchesPattern(lowerLabels[i], customMappings[k].pattern).matches}
      first(S) == CHOOSE k \in S : \A j \in S : k <= j
  IN IF builtIn # {} THEN DEFAULT_PATTERNS[first(builtIn)].os
     ELSE IF custom # {} THEN customMappings[first(custom)].os
     ELSE "unknown"

\* detectOS with the loops of the built-in table exchanged: for each label, each pattern
detectOSLabelsFirst(labels, customMappings) ==
  LET lowerLabels == [i \in 1..Len(labels) |-> toLowerCase(labels[i])]
      custom == {k \in 1..Len(customMappings) :
                   \E i \in 1..Len(labels) :
                      matchesPattern(lowerLabels[i], customMappings[k].pattern).matches}
      dp == [k \in 1..(Len(labels) * Len(DEFAULT_PATTERNS)) |->
               [l |-> ((k - 1) \div Len(DEFAULT_PATTERNS)) + 1,
                m |-> ((k - 1) % Len(DEFAULT_PATTERNS)) + 1]]
      dhit == {k \in DOMAIN dp : includes(lowerLabels[dp[k].l], DEFAULT_PATTERNS[dp[k].m].pattern)}
      first(S) == CHOOSE k \in S : \A j \in S : k <= j
  IN IF custom # {} THEN customMappings[first(custom)].os
     ELSE IF dhit # {} THEN DEFAULT_PATTERNS[dp[first(dhit)].m].os
     ELSE "unknown"

\* detectOS: the OS of the first pair of the custom loop that matches, else of the
\* first pair of the default loop that matches, else unknown; "throws" when a
\* custom pattern tested before any match makes new RegExp throw
detectOS(labels, customMappings) ==
  LET lowerLabels == [i \in 1..Len(labels) |-> toLowerCase(labels[i])]
      cp == LoopPairs(Len(customMappings), Len(labels))
      cm(k) == matchesPattern(lowerLabels[cp[k].l], customMappings[cp[k].m].pattern)
      chit == {k \in DOMAIN cp : cm(k).matches \/ cm(k).threw}
      dp == LoopPairs(Len(DEFAULT_PATTERNS), Len(labels))
      dhit == {k \in DOMAIN dp : includes(lowerLabels[dp[k].l], DEFAULT_PATTERNS[dp[k].m].pattern)}
      first(S) == CHOOSE k \in S : \A j \in S : k <= j
  IN IF chit # {}
     THEN IF cm(first(chit)).threw THEN "throws" ELSE customMappings[cp[first(chit)].m].os
     ELSE IF dhit # {} THEN DEFAULT_PATTERNS[dp[first(dhit)].m].os
     ELSE "unknown"

\* getMultiplier that bills nothing for an unclassified job
getMultiplierKnown(os) == IF os = "unknown" THEN 0 ELSE MULTIPLIERS[os]

getMultiplier(os) == MULTIPLIERS[os]

MsPerDay == 86400000

\* new Date(iso).getTime()
getTime(t) == t.day * MsPerDay + t.ms

\* Math.ceil(a / b) for integers a and b > 0
CeilDiv(a, b) == -((-a) \div b)

\* calculateDurationMinutes with Math.round in place of Math.ceil
calculateDurationMinutesRounded(startedAt, completedAt) ==
  (getTime(completedAt) - getTime(startedAt) + 30000) \div 60000

calculateDurationMinutes(startedAt, completedAt) ==
  CeilDiv(getTime(completedAt) - getTime(startedAt), 60000)

processJob(job, customMappings) ==
  LET os == detectOS(job.labels, customMappings)
      multiplier == getMultiplier(os)
      durationMinutes == calculateDurationMinutes(job.started_at, job.completed_at)
  IN [job |-> job, os |-> os, durationMinutes |-> durationMinutes,
      multiplier |-> multiplier, billableMinutes |-> durationMinutes * multiplier]

\* job.workflow_name || 'unknown'
WorkflowNameOr(job) ==
  LET n == Field(job, "workflow_name")
  IN IF n = Null \/ n = Undefined \/ n = "" THEN "unknown" ELSE n

\* `${job.repo_full_name}/${job.workflow_name || 'unknown'}`
workflowKey(job) == job.repo_full_name \o "/" \o WorkflowNameOr(job)

ZeroBucket == [minutes |-> 0, billableMinutes |-> 0, jobCount |-> 0]

\* Bucket without the `if (!map[key])`: the bucket is initialised for every job
BucketAlwaysInit(map, key, init) == init

\* map[key] after the `if (!map[key]) map[key] = init` of the loop body
Bucket(map, key, init) == IF key \in DOMAIN map THEN map[key] ELSE init

\* map with map[key] set to value
Put(map, key, value) == [k \in DOMAIN map \cup {key} |-> IF k = key THEN value ELSE map[k]]

\* AddTo with `=` in place of the first `+=`
AddToAssigned(bucket, billing) ==
  [bucket EXCEPT !.minutes = billing.durationMinutes,
                 !.billableMinutes = @ + billing.billableMinutes,
                 !.jobCount = @ + 1]

\* AddTo with the duration added to billableMinutes
AddToUnbilled(bucket, billing) ==
  [bucket EXCEPT !.minutes = @ + billing.durationMinutes,
                 !.billableMinutes = @ + billing.durationMinutes,
                 !.jobCount = @ + 1]

\* the three `+=` / `++` of a bucket
AddTo(bucket, billing) ==
  [bucket EXCEPT !.minutes = @ + billing.durationMinutes,
                 !.billableMinutes = @ + billing.billableMinutes,
                 !.jobCount = @ + 1]

EmptyBilling ==
  [totalMinutes |-> 0, totalBillableMinutes |-> 0,
   byOS |-> [os \in OSTypes |-> ZeroBucket],
   byWorkflow |-> << >>, byRepo |-> << >>, byDate |-> << >>,
   jobCount |-> 0, runCount |-> 0, jobs |-> << >>, seenRunIds |-> {}]

\* AggregateJob with `result.jobCount++` placed before the completed_at test
AggregateJobCountsFirst(result, job, customMappings) ==
  IF IsNullTime(job.completed_at) THEN [result EXCEPT !.jobCount = @ + 1]
  ELSE LET billing == processJob(job, customMappings)
       IN [result EXCEPT !.jobs = Append(@, billing), !.jobCount = @ + 1,
                         !.byOS = [@ EXCEPT ![billing.os] = AddTo(@, billing)]]

\* the body of aggregateBilling's first loop for one job
AggregateJob(result, job, customMappings) ==
  IF IsNullTime(job.completed_at) THEN result
  ELSE LET billing == processJob(job, customMappings)
           wk == workflowKey(job)
           repoKey == job.repo_full_name
           dateKey == job.started_at.day
           wf == Bucket(result.byWorkflow, wk, ZeroBucket @@ [runCount |-> 0])
           rp == Bucket(result.byRepo, repoKey, ZeroBucket @@ [workflows |-> {}])
       IN [result EXCEPT
             !.jobs = Append(@, billing),
             !.seenRunIds = @ \cup {job.run_id},
             !.totalMinutes = @ + billing.durationMinutes,
             !.totalBillableMinutes = @ + billing.billableMinutes,
             !.jobCount = @ + 1,
             !.byOS = [@ EXCEPT ![billing.os] = AddTo(@, billing)],
             !.byWorkflow = Put(@, wk, AddTo(wf, billing)),
             !.byRepo = Put(@, repoKey,
                            [AddTo(rp, billing) EXCEPT !.workflows = @ \cup {WorkflowNameOr(job)}]),
             !.byDate = Put(@, dateKey, AddTo(Bucket(result.byDate, dateKey, ZeroBucket), billing))]

RECURSIVE AggregateLoop(_, _, _)
AggregateLoop(result, jobs, customMappings) ==
  IF Len(jobs) = 0 THEN result
  ELSE AggregateLoop(AggregateJob(result, Head(jobs), customMappings), Tail(jobs), customMappings)

\* RunsByWorkflow that collects the jobs in place of their runs
JobsByWorkflow(jobs, key) ==
  {jobs[i].id : i \in {j \in 1..Len(jobs) :
                          ~IsNullTime(jobs[j].completed_at) /\ workflowKey(jobs[j]) = key}}

\* runsByWorkflow.get(key): the run ids of the completed jobs with that workflow key
RunsByWorkflow(jobs, key) ==
  {jobs[i].run_id : i \in {j \in 1..Len(jobs) :
                              ~IsNullTime(jobs[j].completed_at) /\ workflowKey(jobs[j]) = key}}

aggregateBilling(jobs, customMappings) ==
  LET r == AggregateLoop(EmptyBilling, jobs, customMappings)
  IN [totalMinutes |-> r.totalMinutes,
      totalBillableMinutes |-> r.totalBillableMinutes,
      byOS |-> r.byOS,
      byWorkflow |-> [k \in DOMAIN r.byWorkflow |->
                        [r.byWorkflow[k] EXCEPT !.runCount = Cardinality(RunsByWorkflow(jobs, k))]],
      byRepo |-> r.byRepo,
      byDate |-> r.byDate,
      jobCount |-> r.jobCount,
      runCount |-> Cardinality(r.seenRunIds),
      jobs |-> r.jobs]

\* the rates in USD per minute: 0.008, 0.016, 0.08, 0.008
COST_PER_MINUTE ==
  [os \in OSTypes |-> CASE os = "linux" -> NumberLiteral(8, 1000)
                        [] os = "windows" -> NumberLiteral(16, 1000)
                        [] os = "macos" -> NumberLiteral(8, 100)
                        [] os = "unknown" -> NumberLiteral(8, 1000)]

\* Object.entries(billing.byOS): the keys in the order aggregateBilling creates them
ByOSEntries == <<"linux", "windows", "macos", "unknown">>

RECURSIVE CostLoop(_, _, _)
CostLoop(byOS, entries, totalCost) ==
  IF Len(entries) = 0 THEN totalCost
  ELSE CostLoop(byOS, Tail(entries),
                NumberPlus(totalCost,
                           NumberTimes(COST_PER_MINUTE[Head(entries)], byOS[Head(entries)].minutes)))

\* estimateCost with the weighted minutes in place of the raw ones
estimateCostBillable(billing) ==
  CostLoop([os \in OSTypes |-> [minutes |-> billing.byOS[os].billableMinutes]], ByOSEntries, Zero)

estimateCost(billing) == CostLoop(billing.byOS, ByOSEntries, Zero)

(***************************************************************************)
(* SpecCache: direct calls of the Cache Store                              *)
(***************************************************************************)
\* the key parts the calls use
CallKeys == {<<"repos", "a">>}
PathOf(keyParts) == getCachePath(getCacheKey(keyParts))
CallPaths == {PathOf(k) : k \in CallKeys}

\* the arrays handed to setCache: run-like objects, name possibly undefined
CallItems == [id : {1}, name : {Null, Undefined}]
CallData == UNION {[1..n -> CallItems] : n \in 0..MaxData}
Ttls == 0..MaxTtl

NoFile == [kind |-> "none"]
NoCall == [op |-> "none"]
NoSet == [set |-> FALSE]

FileAt(files, path) == IF path \in DOMAIN files THEN files[path] ELSE NoFile

\* an entry left by an earlier run of this or of an older version of the program
OldEntries ==
  {[kind |-> "json", version |-> v, timestamp |-> 0, ttlMs |-> 1, data |-> <<>>] :
     v \in {CACHE_VERSION, "0"}} \cup {Garbage, Unreadable}

InitCache ==
  /\ storage \in {"rw", "ro"}
  /\ dirExists \in BOOLEAN
  /\ \/ cacheFiles = << >>
     \/ /\ dirExists
        /\ \E e \in OldEntries : cacheFiles = [p \in {PathOf(<<"repos", "a">>)} |-> e]
  /\ now = 0
  /\ call = NoCall
  /\ sinceSet = [p \in CallPaths |-> NoSet]
  /\ stale = {}
  /\ BillingOff
  /\ PipeOff
  /\ ClientOff

Install(fs) ==
  /\ cacheFiles' = fs.files
  /\ dirExists' = fs.dir
  /\ UNCHANGED storage

CacheSet(k, d, ttl) ==
  LET fs == setCache(FS, k, d, ttl, now)
  IN /\ Install(fs)
     /\ call' = [op |-> "set", path |-> PathOf(k), ttl |-> ttl, at |-> now, data |-> d,
                 before |-> FileAt(cacheFiles, PathOf(k))]
     /\ sinceSet' = [sinceSet EXCEPT ![PathOf(k)] =
                       [set |-> TRUE, data |-> d, ttl |-> ttl, at |-> now,
                        over |-> FileAt(cacheFiles, PathOf(k))]]
     /\ stale' = stale \ {PathOf(k)}
     /\ UNCHANGED <<now, billingVars, pipeVars, client>>

\* the entry getCache finds is outdated: another version, or older than ttl
Outdated(file, ttl, t) ==
  /\ file.kind = "json"
  /\ \/ file.version # CACHE_VERSION
     \/ t - file.timestamp > ttl

CacheGet(k, ttl) ==
  LET r == getCache(FS, k, ttl, now)
      before == FileAt(cacheFiles, PathOf(k))
  IN /\ Install(r.fs)
     /\ call' = [op |-> "get", path |-> PathOf(k), ttl |-> ttl, at |-> now,
                 hit |-> r.hit, data |-> r.data, before |-> before,
                 sinceSet |-> sinceSet[PathOf(k)], wasStale |-> PathOf(k) \in stale]
     /\ sinceSet' = [sinceSet EXCEPT ![PathOf(k)] = NoSet]
     /\ stale' = IF dirExists' /\ Outdated(before, ttl, now) THEN stale \cup {PathOf(k)} ELSE stale
     /\ UNCHANGED <<now, billingVars, pipeVars, client>>

CacheClear ==
  LET r == clearCache(FS)
  IN /\ Install(r.fs)
     /\ call' = [op |-> "clear", filesDeleted |-> r.filesDeleted]
     /\ sinceSet' = [p \in CallPaths |-> NoSet]
     /\ UNCHANGED <<now, stale, billingVars, pipeVars, client>>

\* the clock advances
Tick ==
  /\ now < MaxTime
  /\ now' = now + 1
  /\ UNCHANGED <<cacheFiles, dirExists, storage, call, sinceSet, stale, billingVars, pipeVars, client>>

NextCache ==
  \/ \E k \in CallKeys, d \in CallData, ttl \in Ttls : CacheSet(k, d, ttl)
  \/ \E k \in CallKeys, ttl \in Ttls : CacheGet(k, ttl)
  \/ CacheClear
  \/ Tick

SpecCache == InitCache /\ [][NextCache]_vars

(***************************************************************************)
(* SpecBilling: the job listing and the Billing Aggregator on drawn inputs *)
(***************************************************************************)
\* the workflow runs the drawn jobs belong to
BillingRuns ==
  << [id |-> 1, name |-> "ci", repository |-> [name |-> "r1", full_name |-> "o/r1"]],
     [id |-> 2, name |-> Null, repository |-> [name |-> "r1", full_name |-> "o/r1"]],
     [id |-> 3, name |-> "ci", repository |-> [name |-> "r3", full_name |-> "o/r3"]] >>

LabelUbuntu == <<"u","b","u","n","t","u">>
LabelWin == <<"W","i","n">>
LabelMac == <<"m","a","c">>
LabelRunner == <<"r","1">>

At(day, ms) == [day |-> day, ms |-> ms]

\* the jobs the API may hold: a 1 s job, a 60 s job, a running job, a 60.001 s job
\* over midnight, a 0 ms job without labels, jobs of 100, 50 and 10 minutes
ApiJobs ==
  { [id |-> 1, run_id |-> 1, labels |-> <<LabelUbuntu>>,
     started_at |-> At(0, 0), completed_at |-> At(0, 1000)],
    [id |-> 2, run_id |-> 1, labels |-> <<LabelWin>>,
     started_at |-> At(0, 1000), completed_at |-> At(0, 61000)],
    [id |-> 3, run_id |-> 2, labels |-> <<LabelMac>>,
     started_at |-> At(1, 0), completed_at |-> NoTime],
    [id |-> 4, run_id |-> 3, labels |-> <<LabelRunner, LabelMac>>,
     started_at |-> At(0, MsPerDay - 60000), completed_at |-> At(1, 1)],
    [id |-> 5, run_id |-> 3, labels |-> << >>,
     started_at |-> At(1, 0), completed_at |-> At(1, 0)],
    [id |-> 6, run_id |-> 1, labels |-> <<LabelUbuntu>>,
     started_at |-> At(0, 0), completed_at |-> At(0, 100 * 60000)],
    [id |-> 7, run_id |-> 1, labels |-> <<LabelWin>>,
     started_at |-> At(0, 0), completed_at |-> At(0, 50 * 60000)],
    [id |-> 8, run_id |-> 3, labels |-> <<LabelMac>>,
     started_at |-> At(1, 0), completed_at |-> At(1, 10 * 60000)] }

\* the same jobs as fetchAllJobs hands them on (also the running one)
InputJobs == {JobsWithRepo(BillingRuns[j.run_id], <<j>>)[1] : j \in ApiJobs}

InputLists == UNION {[1..n -> InputJobs] : n \in 0..MaxJobs}

MappingLists == { << >>, << [pattern |-> <<"r","*">>, os |-> "windows"] >> }

InitBilling ==
  /\ bpc = "input"
  /\ bInput \in InputLists
  /\ bMappings \in MappingLists
  /\ bRuns = << >>
  /\ bListed = << >>
  /\ bFetched = << >>
  /\ bArg = << >>
  /\ bResult = EmptyBilling
  /\ bCost = << >>
  /\ JobOff /\ FnOff
  /\ cacheFiles = << >> /\ dirExists = FALSE /\ storage = "rw" /\ now = 0
  /\ call = NoCall /\ sinceSet = << >> /\ stale = {}
  /\ PipeOff
  /\ ClientOff

\* the API's answer for one run: its jobs of bInput, in pages cut after the first k
JobPages(run, k) ==
  LET mine == SelectSeq(ToWorkflowJobs(bInput), LAMBDA j : j.run_id = run.id)
      cut == IF k < Len(mine) THEN k ELSE Len(mine)
  IN << [ok |-> TRUE, data |-> SubSeq(mine, 1, cut)],
        [ok |-> TRUE, data |-> SubSeq(mine, cut + 1, Len(mine))] >>

\* the run lists handed to fetchAllJobs: the three runs, two of them in another order,
\* a list naming run 1 twice
RunLists ==
  { BillingRuns, << BillingRuns[3], BillingRuns[1] >>, << BillingRuns[1], BillingRuns[1] >> }

\* fetchAllJobs on a run list (cache off), every listing answered: the flattened
\* results of its tasks
BillingFetch(runs, k) ==
  /\ bpc = "input"
  /\ bRuns' = runs
  /\ bListed' = [i \in 1..Len(runs) |-> listRunJobs(JobPages(runs[i], k))]
  /\ bFetched' = Flatten([i \in 1..Len(runs) |-> JobsWithRepo(runs[i], bListed'[i])])
  /\ bpc' = "fetched"
  /\ UNCHANGED <<bInput, bMappings, bArg, bResult, bCost, processed, fnCall, cacheVars,
                 harnessVars,
                 client, pipeVars>>

\* aggregateBilling called on the drawn list, or on what fetchAllJobs returned
BillingAggregate ==
  /\ bpc \in {"input", "fetched"}
  /\ bArg' = IF bpc = "input" THEN bInput ELSE bFetched
  /\ bResult' = aggregateBilling(bArg', bMappings)
  /\ bpc' = "aggregated"
  /\ UNCHANGED <<bInput, bRuns, bMappings, bListed, bFetched, bCost, processed, fnCall, cacheVars,
                 harnessVars,
                 client, pipeVars>>

\* estimateCost called on the result, as outputResults calls it
BillingEstimate ==
  /\ bpc = "aggregated"
  /\ bCost' = estimateCost(bResult)
  /\ bpc' = "estimated"
  /\ UNCHANGED <<bInput, bRuns, bMappings, bListed, bFetched, bArg, bResult, processed, fnCall,
                 cacheVars,
                 harnessVars, client, pipeVars>>

NextBilling ==
  \/ \E k \in 0..MaxJobs : BillingFetch(BillingRuns, k)
  \/ BillingAggregate
  \/ BillingEstimate

SpecBilling == InitBilling /\ [][NextBilling]_vars

\* SpecFetch: fetchAllJobs alone, on each of the run lists
NextFetch == \E runs \in RunLists, k \in 0..MaxJobs : BillingFetch(runs, k)

SpecFetch == InitBilling /\ [][NextFetch]_vars

(***************************************************************************)
(* SpecJob: processJob on one drawn job                                    *)
(***************************************************************************)
\* the longest label list drawn
MaxLabels == 2

\* the tokens of DEFAULT_PATTERNS as labels
TokenLabels == {DEFAULT_PATTERNS[i].pattern : i \in 1..Len(DEFAULT_PATTERNS)}

LabelUbuntuLatest == <<"U","b","u","n","t","u","-","l","a","t","e","s","t">>
LabelMacosLarge == <<"m","a","c","o","s","-","l","a","r","g","e">>
LabelSelfHosted == <<"s","e","l","f","-","h","o","s","t","e","d">>
LabelRunnerProd == <<"r","u","n","n","e","r","-","4","2","-","p","r","o","d">>
LabelArm == <<"a","r","m","6","4">>

\* the labels that come in lists of several
ListLabels == {LabelUbuntuLatest, LabelMacosLarge, LabelSelfHosted, LabelRunnerProd, LabelWin,
               LabelArm}

\* the label lists drawn: each token alone, and every list of up to MaxLabels of ListLabels
LabelLists ==
  {<<l>> : l \in TokenLabels} \cup UNION {[1..n -> ListLabels] : n \in 0..MaxLabels}

PatternRunner == <<"r","u","n","n","e","r","-","*">>
PatternSelf == <<"s","e","l","f","-","*">>
PatternUbuntu == <<"u","b","u","n","t","u","*">>
PatternProd == <<"*","-","p","r","o","d">>

\* the mapping lists drawn, as parseLabelMappings returns them
JobMappingLists ==
  { << >>,
    << [pattern |-> PatternRunner, os |-> "linux"] >>,
    << [pattern |-> PatternSelf, os |-> "macos"], [pattern |-> PatternRunner, os |-> "linux"] >>,
    << [pattern |-> PatternProd, os |-> "windows"], [pattern |-> PatternRunner, os |-> "linux"] >>,
    << [pattern |-> PatternUbuntu, os |-> "windows"] >> }

\* the instants a drawn job starts at: midnight, and the last millisecond of a day
JobStarts == {At(0, 0), At(0, MsPerDay - 1)}

\* the durations drawn, in ms
JobDurations == {0, 1, 1000, 59999, 60000, 60001, 119999, 120000, 120001}

\* the timestamp of the instant ms
AtTime(ms) == At(ms \div MsPerDay, ms % MsPerDay)

JobInputs ==
  { [id |-> 1, run_id |-> 1, labels |-> ls, started_at |-> st,
     completed_at |-> AtTime(getTime(st) + d)] :
      ls \in LabelLists, st \in JobStarts, d \in JobDurations }

InitJob ==
  /\ processed \in [phase : {"input"}, job : JobInputs, mappings : JobMappingLists,
                    billing : {<< >>}]
  /\ bpc = "off" /\ bInput = << >> /\ bRuns = << >> /\ bMappings = << >> /\ bListed = << >>
  /\ bFetched = << >>
  /\ bArg = << >> /\ bResult = << >> /\ bCost = << >>
  /\ FnOff
  /\ cacheFiles = << >> /\ dirExists = FALSE /\ storage = "rw" /\ now = 0
  /\ call = NoCall /\ sinceSet = << >> /\ stale = {}
  /\ PipeOff
  /\ ClientOff

\* processJob called on the drawn job
ProcessJob ==
  /\ processed.phase = "input"
  /\ processed' = [processed EXCEPT !.phase = "done",
                                    !.billing = processJob(processed.job, processed.mappings)]
  /\ UNCHANGED <<bpc, bInput, bRuns, bMappings, bListed, bFetched, bArg, bResult, bCost, fnCall,
                 cacheVars, harnessVars, client, pipeVars>>

NextJob == ProcessJob

SpecJob == InitJob /\ [][NextJob]_vars

(***************************************************************************)
(* The server: the organization's repositories, their runs, their jobs     *)
(***************************************************************************)
Org == "o"
RepoNames == <<"r1", "r2", "r3", "r4", "r5">>

\* an item of GET /orgs/{org}/repos
ApiRepo(i) == [name |-> RepoNames[i], full_name |-> Org \o "/" \o RepoNames[i],
               owner |-> [login |-> Org]]

ApiRun(id, name, repo, createdAt) ==
  [id |-> id, name |-> name, status |-> "completed", created_at |-> createdAt,
   repository |-> [name |-> RepoNames[repo], full_name |-> Org \o "/" \o RepoNames[repo]]]

\* the completed runs the server holds: two of r1 (one without a name), one of r3
\* (without a name), none of the other repositories; created_at in ticks of the clock
WorldRuns ==
  << ApiRun(1, "ci", 1, -1), ApiRun(2, Null, 1, -2), ApiRun(3, Null, 3, -1) >>

\* the jobs the server holds: a 1 s job, a 60 s job, a running job, a 60.001 s job
\* over midnight, a 0 ms job without labels
WorldJobs ==
  << [id |-> 1, run_id |-> 1, labels |-> <<LabelUbuntu>>,
      started_at |-> At(0, 0), completed_at |-> At(0, 1000)],
     [id |-> 2, run_id |-> 1, labels |-> <<LabelWin>>,
      started_at |-> At(0, 1000), completed_at |-> At(0, 61000)],
     [id |-> 3, run_id |-> 2, labels |-> <<LabelMac>>,
      started_at |-> At(1, 0), completed_at |-> NoTime],
     [id |-> 4, run_id |-> 3, labels |-> <<LabelRunner, LabelMac>>,
      started_at |-> At(0, MsPerDay - 60000), completed_at |-> At(1, 1)],
     [id |-> 5, run_id |-> 3, labels |-> << >>,
      started_at |-> At(1, 0), completed_at |-> At(1, 0)] >>

\* the calendar day of an instant (a day is two ticks of the clock):
\* toISOString().split('T')[0]
DayOf(t) == t \div 2

\* the answer to listWorkflowRunsForRepo with created: `${sinceISO}..${untilISO}`: the
\* runs of the repository created on the days from since's to until's
ApiRunsOf(owner, repo, since, until) ==
  SelectSeq(WorldRuns, LAMBDA r : /\ r.repository.full_name = owner \o "/" \o repo
                                  /\ DayOf(r.created_at) >= DayOf(since)
                                  /\ DayOf(r.created_at) <= DayOf(until))

\* the answer to listJobsForWorkflowRun
ApiJobsOf(runId) == SelectSeq(WorldJobs, LAMBDA j : j.run_id = runId)

\* the number of pages the server cuts n items into
NumPages(n) == IF n = 0 THEN 1 ELSE (n + PerPage - 1) \div PerPage

PageOf(items, k) ==
  SubSeq(items, (k - 1) * PerPage + 1,
         IF k * PerPage < Len(items) THEN k * PerPage ELSE Len(items))

\* the responses the iterator sees: every page, or the pages up to the one that
\* fails (failAt = 0: none fails)
Responses(items, failAt) ==
  [k \in 1..(IF failAt = 0 THEN NumPages(Len(items)) ELSE failAt) |->
     IF k = failAt THEN [ok |-> FALSE] ELSE [ok |-> TRUE, data |-> PageOf(items, k)]]

(***************************************************************************)
(* api.ts: the records, the cache keys, listWorkflowRuns                   *)
(***************************************************************************)
\* the object listOrgRepos pushes for an API repository
Repository(repo) == [name |-> repo.name, full_name |-> repo.full_name, owner |-> repo.owner.login]

\* the object listWorkflowRuns pushes for an API run
WorkflowRun(run) ==
  [id |-> run.id, name |-> run.name, status |-> run.status, created_at |-> run.created_at,
   repository |-> [name |-> run.repository.name, full_name |-> run.repository.full_name]]

\* the runs of the pages received before the failing one are returned
listWorkflowRunsPartial(pages, since, until) ==
  LET ok == SelectSeq(pages, LAMBDA p : p.ok)
      inside == SelectSeq(PageItems(ok),
                          LAMBDA r : r.created_at >= since /\ r.created_at <= until)
  IN [i \in 1..Len(inside) |-> WorkflowRun(inside[i])]

\* the runs of all pages as the API answered, without the test of runDate
listWorkflowRunsAsAnswered(pages, since, until) ==
  IF ~AllPagesOk(pages) THEN << >>
  ELSE [i \in 1..Len(PageItems(pages)) |-> WorkflowRun(PageItems(pages)[i])]

\* listWorkflowRuns: the runs of all pages inside [since, until], or [] when a page
\* request throws
listWorkflowRuns(pages, since, until) ==
  IF ~AllPagesOk(pages) THEN << >>
  ELSE LET inside == SelectSeq(PageItems(pages),
                               LAMBDA r : r.created_at >= since /\ r.created_at <= until)
       IN [i \in 1..Len(inside) |-> WorkflowRun(inside[i])]

Digits == <<"0", "1", "2", "3", "4", "5", "6", "7", "8", "9">>

RECURSIVE NatToStr(_)
NatToStr(n) == IF n < 10 THEN Digits[n + 1] ELSE NatToStr(n \div 10) \o Digits[(n % 10) + 1]

\* String(n)
IntToStr(n) == IF n < 0 THEN "-" \o NatToStr(-n) ELSE NatToStr(n)

\* Date.prototype.toISOString, one text per instant
toISOString(t) == "T" \o IntToStr(t)

RECURSIVE Insert(_, _)
Insert(x, sorted) ==
  IF Len(sorted) = 0 THEN <<x>>
  ELSE IF x < Head(sorted) THEN <<x>> \o sorted
  ELSE <<Head(sorted)>> \o Insert(x, Tail(sorted))

\* Array.prototype.sort on numbers whose order is that of their texts
RECURSIVE Sort(_)
Sort(seq) == IF Len(seq) = 0 THEN << >> ELSE Insert(Head(seq), Sort(Tail(seq)))

\* the place of a repository name in code-unit order (the server's names are in it)
NameRank(fullName) == CHOOSE i \in 1..Len(RepoNames) : fullName = Org \o "/" \o RepoNames[i]

\* repos.map(r => r.full_name).sort().join(',')
SortedNames(rs) ==
  LET ranks == Sort([i \in 1..Len(rs) |-> NameRank(rs[i].full_name)])
  IN JoinWith([i \in 1..Len(rs) |-> Org \o "/" \o RepoNames[ranks[i]]], ",")

\* runs.map(r => r.id).sort().join(','): sort compares the ids as strings, which for
\* the one-digit ids of the server is their numeric order
SortedIds(rs) ==
  LET ids == Sort([i \in 1..Len(rs) |-> rs[i].id])
  IN JoinWith([i \in 1..Len(rs) |-> IntToStr(ids[i])], ",")

ReposKey(org) == <<"repos", org>>
RunsKey(rs, since, until) == <<"runs", SortedNames(rs), toISOString(since), toISOString(until)>>
JobsKey(rs) == <<"jobs", SortedIds(rs)>>

(***************************************************************************)
(* Spec: invocations of run()                                              *)
(***************************************************************************)
Tiers == {"repos", "runs", "jobs"}
RangeModes == {"days", "startEnd"}

\* --days in ticks, and the instants of --start and --end (starts of days)
DaysWindow == 6
StartOption == -6
EndOption == 0

\* --cache-ttl in ticks
CacheTtlOption == 1

\* what is recorded of a tier function's call: that it was called, the requests it
\* sent, its getCache and setCache calls, the count (first argument) of each of its
\* progress callbacks and all arguments of the last one, its `completed` counter, and
\* the cache when it was called: the entry under its key, whether that entry was fresh,
\* and the whole directory
FreshTier == [called |-> FALSE, requests |-> 0, reads |-> 0, writes |-> 0, hit |-> FALSE,
              progress |-> << >>, last |-> << >>, completed |-> 0, path |-> "", entry |-> NoFile,
              fresh |-> FALSE, before |-> << >>]
NoListing == [repos |-> << >>, page |-> 0]
NoOutcome == [kind |-> "none"]

Init ==
  /\ pc = "idle"
  /\ inv = 0
  /\ world \in [nRepos : 0..MaxRepos, concurrency : 1..MaxConcurrency, range : RangeModes]
  /\ opts = << >>
  /\ failures = 0
  /\ listing = NoListing
  /\ repoList = << >> /\ runList = << >> /\ jobList = << >>
  /\ runW = << >> /\ jobW = << >>
  /\ tier = [t \in Tiers |-> FreshTier]
  /\ outcome = NoOutcome
  /\ now = 0
  /\ \/ cacheFiles = << >> /\ dirExists = FALSE /\ storage \in {"rw", "ro"}
     \/ /\ storage = "ro" /\ dirExists = TRUE
        /\ cacheFiles = [p \in {PathOf(ReposKey(Org))} |-> Garbage]
  /\ call = NoCall /\ sinceSet = << >> /\ stale = {}
  /\ BillingOff
  /\ ClientOff

Min(a, b) == IF a < b THEN a ELSE b

\* the tasks of xs.map(x => limit(...)) once the microtasks of p-limit's enqueue have
\* run: the first `concurrency` run, the others wait in the queue
LimitAllAtOnce(n, concurrency) ==
  [i \in 1..n |-> [st |-> "running", result |-> << >>, failed |-> FALSE]]

LimitAll(n, concurrency) ==
  [i \in 1..n |-> [st |-> IF i <= concurrency THEN "running" ELSE "queued",
                   result |-> << >>, failed |-> FALSE]]

Queued(w) == {i \in DOMAIN w : w[i].st = "queued"}
Running(w) == {i \in DOMAIN w : w[i].st = "running"}

\* Promise.all(tasks) resolves
SomeDone(w) == \E i \in DOMAIN w : w[i].st = "done"

AllDone(w) == \A i \in DOMAIN w : w[i].st = "done"

\* p-limit's next(): activeCount--, and the head of the queue, if any, runs
LimitNext(w) ==
  IF Queued(w) = {} THEN w
  ELSE LET i == CHOOSE q \in Queued(w) : \A r \in Queued(w) : q <= r
       IN [w EXCEPT ![i].st = "running"]

\* SpecOrder keeps the order in which the tasks of a tier resolved with a result that
\* is not empty, until run has taken the list the tier returned
NoneArrived == [runs |-> << >>, jobs |-> << >>]
Arrived(t, i, found) ==
  IF fnCall.phase = "order" /\ found # << >>
  THEN [fnCall EXCEPT !.arrived[t] = Append(@, i)] ELSE fnCall
Forgotten(t) ==
  IF fnCall.phase = "order" THEN [fnCall EXCEPT !.arrived[t] = << >>] ELSE fnCall

\* `if (useCache) { const cached = getCache(...); if (cached) ... }`
ReadCache(o, key, t) ==
  IF o.useCache THEN getCache(FS, key, o.cacheTtlMs, t) ELSE Miss(FS)

\* the write happens whatever useCache is
WriteCacheAlways(key, data) == setCache(FS, key, data, opts.cacheTtlMs, now)

\* the write is left out when a listing of the invocation failed
WriteCacheComplete(key, data) ==
  IF opts.useCache /\ (\A i \in DOMAIN runW : ~runW[i].failed)
                   /\ (\A i \in DOMAIN jobW : ~jobW[i].failed)
  THEN setCache(FS, key, data, opts.cacheTtlMs, now) ELSE FS

\* `if (useCache) setCache(...)`
WriteCache(key, data) ==
  IF opts.useCache THEN setCache(FS, key, data, opts.cacheTtlMs, now) ELSE FS

\* the entry under the key at the call, and whether it is a fresh one
IsFresh(file, ttl, t) ==
  /\ file.kind = "json"
  /\ file.version = CACHE_VERSION
  /\ t - file.timestamp <= ttl

CalledTier(o, key, c, count, full, sent, t) ==
  [FreshTier EXCEPT !.called = TRUE,
                    !.reads = IF o.useCache THEN 1 ELSE 0,
                    !.hit = c.hit,
                    !.progress = IF c.hit THEN <<count>> ELSE << >>,
                    !.last = IF c.hit THEN full ELSE << >>,
                    !.requests = IF c.hit THEN 0 ELSE sent,
                    !.path = PathOf(key),
                    !.entry = FileAt(cacheFiles, PathOf(key)),
                    !.fresh = IsFresh(FileAt(cacheFiles, PathOf(key)), o.cacheTtlMs, t),
                    !.before = FS]

\* one message for the three exits
ExitMessageShared(kind) ==
  IF kind \in {"noRepos", "noRuns", "noJobs"} THEN "\nNo data found." ELSE ""

\* what run prints with console.log before its `return` on an empty list
ExitMessage(kind) ==
  IF kind = "noRepos" THEN "\nNo repositories found in this organization."
  ELSE IF kind = "noRuns" THEN "\nNo workflow runs found in the specified time period."
  ELSE IF kind = "noJobs" THEN "\nNo completed jobs found."
  ELSE ""

\* run returns or exits: the invocation is over
Finish(kind, exitCode, billing) ==
  /\ pc' = "idle"
  /\ outcome' = [kind |-> kind, exitCode |-> exitCode, billing |-> billing,
                  message |-> ExitMessage(kind)]

\* run, invoked at the instant `at`, from its start to the first await of
\* listOrgRepos: the options and the date range (getCacheStats only reads the
\* directory), then the cache lookup of the repositories, then the request of the
\* first page
RunStart(useCache, at) ==
  /\ pc = "idle"
  /\ inv < MaxInvocations
  /\ at >= now
  /\ inv = 0 => at = now
  /\ now' = at
  /\ inv' = inv + 1
  /\ LET o == [useCache |-> useCache, cacheTtlMs |-> CacheTtlOption,
               concurrency |-> world.concurrency,
               since |-> IF world.range = "days" THEN at - DaysWindow ELSE StartOption,
               until |-> IF world.range = "startEnd" THEN EndOption ELSE at]
         c == ReadCache(o, ReposKey(Org), at)
     IN /\ opts' = o
        /\ cacheFiles' = c.fs.files /\ dirExists' = c.fs.dir /\ UNCHANGED storage
        /\ tier' = [t \in Tiers |->
                      IF t = "repos"
                      THEN CalledTier(o, ReposKey(Org), c, Len(c.data), [count |-> Len(c.data)], 1, at)
                      ELSE FreshTier]
        /\ IF c.hit
           THEN pc' = "gotRepos" /\ repoList' = c.data /\ listing' = NoListing
           ELSE pc' = "listRepos" /\ repoList' = << >> /\ listing' = [repos |-> << >>, page |-> 1]
  /\ runList' = << >> /\ jobList' = << >> /\ runW' = << >> /\ jobW' = << >>
  /\ outcome' = NoOutcome
  /\ fnCall' = IF fnCall.phase = "order" THEN [fnCall EXCEPT !.arrived = NoneArrived] ELSE fnCall
  /\ UNCHANGED <<world, failures, harnessVars, client, billingData>>

OrgRepos == [i \in 1..world.nRepos |-> ApiRepo(i)]

\* the iterator ends after its first page
LastPageFirst(k, n) == TRUE

\* the iterator of octokit.paginate ends with the last page
LastPage(k, n) == k >= NumPages(n)

\* listOrgRepos receives the page it asked for: it pushes the repositories, reports
\* the running total and asks for the next page, or after the last page saves the
\* list and returns
ReposPage ==
  /\ pc = "listRepos"
  /\ LET page == PageOf(OrgRepos, listing.page)
         got == listing.repos \o [i \in 1..Len(page) |-> Repository(page[i])]
         last == LastPage(listing.page, world.nRepos)
     IN /\ IF last
           THEN /\ Install(WriteCache(ReposKey(Org), got))
                /\ repoList' = got
                /\ listing' = NoListing
                /\ pc' = "gotRepos"
           ELSE /\ listing' = [repos |-> got, page |-> listing.page + 1]
                /\ UNCHANGED <<cacheFiles, dirExists, storage, repoList, pc>>
        /\ tier' = [tier EXCEPT !["repos"].progress = Append(@, Len(got)),
                                !["repos"].last = [count |-> Len(got)],
                                !["repos"].requests = IF last THEN @ ELSE @ + 1,
                                !["repos"].writes = IF last /\ opts.useCache THEN @ + 1 ELSE @]
  /\ UNCHANGED <<inv, world, opts, failures, runW, runList, jobW, jobList, outcome, now,
                 harnessVars, client, billingVars>>

\* a page request of listOrgRepos fails and the repositories listed so far are
\* returned, as listWorkflowRuns and listRunJobs return on an error
ReposPageFailsSoft ==
  /\ pc = "listRepos"
  /\ failures < MaxFailures
  /\ failures' = failures + 1
  /\ repoList' = listing.repos
  /\ pc' = "gotRepos"
  /\ UNCHANGED <<inv, world, opts, listing, outcome, runW, runList, jobW, jobList, tier,
                 cacheVars, harnessVars, client, billingVars>>

\* a page request of listOrgRepos fails: the error leaves listOrgRepos and reaches
\* the catch of run, which prints it and exits with code 1
ReposPageFails ==
  /\ pc = "listRepos"
  /\ failures < MaxFailures
  /\ failures' = failures + 1
  /\ Finish("error", 1, << >>)
  /\ UNCHANGED <<inv, world, opts, listing, repoList, runW, runList, jobW, jobList, tier,
                 cacheVars, harnessVars, client, billingVars>>

\* run after `await listOrgRepos`: the empty-list exit, or fetchOrgWorkflowRuns up to
\* its first await: the cache lookup, then the tasks handed to p-limit
RunAfterRepos ==
  /\ pc = "gotRepos"
  /\ IF Len(repoList) = 0
     THEN /\ Finish("noRepos", 0, << >>)
          /\ UNCHANGED <<runW, runList, tier, cacheVars>>
     ELSE LET n == Len(repoList)
              key == RunsKey(repoList, opts.since, opts.until)
              c == ReadCache(opts, key, now)
          IN /\ Install(c.fs)
             /\ UNCHANGED <<now, outcome>>
             /\ tier' = [tier EXCEPT !["runs"] =
                  CalledTier(opts, key, c, n,
                             [completed |-> n, total |-> n, runCount |-> Len(c.data)],
                             Min(n, opts.concurrency), now)]
             /\ IF c.hit
                THEN runList' = c.data /\ runW' = << >> /\ pc' = "gotRuns"
                ELSE runList' = << >> /\ runW' = LimitAll(n, opts.concurrency)
                     /\ pc' = "fetchRuns"
  /\ UNCHANGED <<inv, world, opts, failures, listing, repoList, jobW, jobList,
                 harnessVars, client, billingVars>>

\* the position of the task in place of the counter shared by the tasks
CompletedOfTask(t, i) == i

\* `completed++` of task i of tier t, run without an await between it and the
\* progress callback that is passed its value
CompletedPlusPlus(t, i) == tier[t].completed + 1

\* the task of repository i ends: listWorkflowRuns has walked the pages (failAt = the
\* page whose request throws, 0 = none), the counter and the progress callback follow
\* (allRuns is still empty: it is filled after Promise.all), and p-limit runs the next
\* queued task
RunTaskDone(i, failAt) ==
  /\ pc = "fetchRuns"
  /\ i \in Running(runW)
  /\ failAt = 0 \/ failures < MaxFailures
  /\ LET repo == repoList[i]
         items == ApiRunsOf(repo.owner, repo.name, opts.since, opts.until)
     IN /\ failAt <= NumPages(Len(items))
        /\ LET found == listWorkflowRuns(Responses(items, failAt), opts.since, opts.until)
               done == [runW EXCEPT ![i] = [st |-> "done", result |-> found,
                                            failed |-> failAt # 0]]
           IN /\ runW' = LimitNext(done)
              /\ tier' = [tier EXCEPT
                   !["runs"].completed = CompletedPlusPlus("runs", i),
                   !["runs"].progress = Append(@, CompletedPlusPlus("runs", i)),
                   !["runs"].last = [completed |-> CompletedPlusPlus("runs", i),
                                     total |-> Len(repoList), runCount |-> 0 + Len(found)],
                   !["runs"].requests = IF Queued(done) = {} THEN @ ELSE @ + 1]
  /\ failures' = IF failAt = 0 THEN failures ELSE failures + 1
  /\ fnCall' = Arrived("runs", i, runW'[i].result)
  /\ UNCHANGED <<pc, inv, world, opts, listing, repoList, runList, jobW, jobList, outcome,
                 cacheVars, harnessVars, client, billingData>>

\* the results in the order the tasks might have settled in: last task first
PromiseAllSettled(w) == [i \in 1..Len(w) |-> w[Len(w) + 1 - i].result]

\* `await Promise.all(tasks)`: the results of the tasks in the order of the tasks
PromiseAll(w) == [i \in 1..Len(w) |-> w[i].result]

\* Promise.all(tasks) of fetchOrgWorkflowRuns resolves: the results are flattened in
\* task order, saved and returned
RunsTierDone ==
  /\ pc = "fetchRuns"
  /\ AllDone(runW)
  /\ LET allRuns == Flatten(PromiseAll(runW))
     IN /\ Install(WriteCache(RunsKey(repoList, opts.since, opts.until), allRuns))
        /\ runList' = allRuns
  /\ tier' = [tier EXCEPT !["runs"].writes = IF opts.useCache THEN @ + 1 ELSE @]
  /\ pc' = "gotRuns"
  /\ UNCHANGED <<inv, world, opts, failures, listing, repoList, runW, jobW, jobList, outcome,
                 now, harnessVars, client, billingVars>>

\* run after `await fetchOrgWorkflowRuns`: the empty-list exit, or fetchAllJobs up to
\* its first await
RunAfterRuns ==
  /\ pc = "gotRuns"
  /\ IF Len(runList) = 0
     THEN /\ Finish("noRuns", 0, << >>)
          /\ UNCHANGED <<jobW, jobList, tier, cacheVars>>
     ELSE LET n == Len(runList)
              key == JobsKey(runList)
              c == ReadCache(opts, key, now)
          IN /\ Install(c.fs)
             /\ UNCHANGED <<now, outcome>>
             /\ tier' = [tier EXCEPT !["jobs"] =
                  CalledTier(opts, key, c, n, [completed |-> n, total |-> n],
                             Min(n, opts.concurrency), now)]
             /\ IF c.hit
                THEN jobList' = c.data /\ jobW' = << >> /\ pc' = "gotJobs"
                ELSE jobList' = << >> /\ jobW' = LimitAll(n, opts.concurrency)
                     /\ pc' = "fetchJobs"
  /\ fnCall' = Forgotten("runs")
  /\ UNCHANGED <<inv, world, opts, failures, listing, repoList, runW, runList,
                 harnessVars, client, billingData>>

\* the task of run i ends: listRunJobs has walked the pages, the jobs get the run's
\* repository and workflow name, the counter and the progress callback follow, and
\* p-limit runs the next queued task
JobTaskDone(i, failAt) ==
  /\ pc = "fetchJobs"
  /\ i \in Running(jobW)
  /\ failAt = 0 \/ failures < MaxFailures
  /\ LET run == runList[i]
         items == ApiJobsOf(run.id)
     IN /\ failAt <= NumPages(Len(items))
        /\ LET found == JobsWithRepo(run, listRunJobs(Responses(items, failAt)))
               done == [jobW EXCEPT ![i] = [st |-> "done", result |-> found,
                                            failed |-> failAt # 0]]
           IN /\ jobW' = LimitNext(done)
              /\ tier' = [tier EXCEPT
                   !["jobs"].completed = CompletedPlusPlus("jobs", i),
                   !["jobs"].progress = Append(@, CompletedPlusPlus("jobs", i)),
                   !["jobs"].last = [completed |-> CompletedPlusPlus("jobs", i),
                                     total |-> Len(runList)],
                   !["jobs"].requests = IF Queued(done) = {} THEN @ ELSE @ + 1]
  /\ failures' = IF failAt = 0 THEN failures ELSE failures + 1
  /\ fnCall' = Arrived("jobs", i, jobW'[i].result)
  /\ UNCHANGED <<pc, inv, world, opts, listing, repoList, runW, runList, jobList, outcome,
                 cacheVars, harnessVars, client, billingData>>

\* Promise.all(tasks) of fetchAllJobs resolves
JobsTierDone ==
  /\ pc = "fetchJobs"
  /\ AllDone(jobW)
  /\ LET allJobs == Flatten(PromiseAll(jobW))
     IN /\ Install(WriteCache(JobsKey(runList), allJobs))
        /\ jobList' = allJobs
  /\ tier' = [tier EXCEPT !["jobs"].writes = IF opts.useCache THEN @ + 1 ELSE @]
  /\ pc' = "gotJobs"
  /\ UNCHANGED <<inv, world, opts, failures, listing, repoList, runW, runList, jobW, outcome,
                 now, harnessVars, client, billingVars>>

\* run after `await fetchAllJobs`: the empty-list exit, or the aggregation and the report
RunAfterJobs ==
  /\ pc = "gotJobs"
  /\ IF Len(jobList) = 0
     THEN Finish("noJobs", 0, << >>)
     ELSE Finish("report", 0, aggregateBilling(jobList, << >>))
  /\ fnCall' = Forgotten("jobs")
  /\ UNCHANGED <<inv, world, opts, failures, listing, repoList, runW, runList, jobW, jobList,
                 tier, cacheVars, harnessVars, client, billingData>>

Next ==
  \/ \E useCache \in BOOLEAN, at \in 0..MaxTime : RunStart(useCache, at)
  \/ ReposPage
  \/ ReposPageFails
  \/ RunAfterRepos
  \/ \E i \in 1..MaxRepos, failAt \in 0..Len(WorldRuns) : RunTaskDone(i, failAt)
  \/ RunsTierDone
  \/ RunAfterRuns
  \/ \E i \in 1..Len(WorldRuns), failAt \in 0..Len(WorldJobs) : JobTaskDone(i, failAt)
  \/ JobsTierDone
  \/ RunAfterJobs

Spec == Init /\ [][Next]_vars

\* SpecOrder: the invocations of Spec on a writable cache directory, with the order in
\* which the tasks of each tier resolve kept in fnCall
InitOrder ==
  /\ pc = "idle"
  /\ inv = 0
  /\ world \in [nRepos : 0..MaxRepos, concurrency : 1..MaxConcurrency, range : RangeModes]
  /\ opts = << >>
  /\ failures = 0
  /\ listing = NoListing
  /\ repoList = << >> /\ runList = << >> /\ jobList = << >>
  /\ runW = << >> /\ jobW = << >>
  /\ tier = [t \in Tiers |-> FreshTier]
  /\ outcome = NoOutcome
  /\ now = 0
  /\ cacheFiles = << >> /\ dirExists = FALSE /\ storage = "rw"
  /\ call = NoCall /\ sinceSet = << >> /\ stale = {}
  /\ bpc = "off" /\ bInput = << >> /\ bRuns = << >> /\ bMappings = << >> /\ bListed = << >>
  /\ bFetched = << >>
  /\ bArg = << >> /\ bResult = << >> /\ bCost = << >>
  /\ JobOff
  /\ fnCall = [phase |-> "order", arrived |-> NoneArrived]
  /\ ClientOff

SpecOrder == InitOrder /\ [][Next]_vars

(***************************************************************************)
(* SpecClient: one request through the client that createOctokit builds.   *)
(*                                                                         *)
(* Octokit.plugin(..., throttling, retry): the retry plugin wraps the      *)
(* throttling plugin, which wraps the request. On a 403 or 429 answer the  *)
(* throttling plugin calls the handler of the limit the answer signals,    *)
(* with the number of retries it has made for this request, and sends the  *)
(* request again iff the handler returns true. An error that leaves the    *)
(* throttling plugin reaches the retry plugin, which sends the request     *)
(* again, up to `retries` times, unless doNotRetry includes its status.    *)
(***************************************************************************)
\* JavaScript values whose type matters to ===
JsNumber(n) == [num |-> n]
JsString(str) == [str |-> str]

\* Array.prototype.includes
ArrayIncludes(arr, v) == \E i \in 1..Len(arr) : arr[i] = v

\* retry: { doNotRetry: ['429'] }; the option replaces the plugin's default list
doNotRetry == <<JsString("429")>>

\* the retries of the retry plugin, which createOctokit leaves at the default
DefaultRetries == 3

\* throttle.onRateLimit: the return value
onRateLimit(retryCount) == retryCount < 2

\* throttle.onSecondaryRateLimit: the return value
onSecondaryRateLimit(retryCount) == retryCount < 1

\* the answers of the server: success, a primary or a secondary rate limit (each
\* as 403 or as 429), another error
Answers ==
  { [status |-> 200, limit |-> "none"], [status |-> 404, limit |-> "none"] } \cup
  [status : {403, 429}, limit : {"primary", "secondary"}]

InitClient ==
  /\ client = [phase |-> "ready", sends |-> 0, retryCount |-> 0, retried |-> 0,
               notified |-> 0, seen |-> {}, asked |-> << >>]
  /\ cacheFiles = << >> /\ dirExists = FALSE /\ storage = "rw" /\ now = 0
  /\ call = NoCall /\ sinceSet = << >> /\ stale = {}
  /\ BillingOff
  /\ PipeOff

\* the throttling plugin on an answer: the handler it calls, if any, and whether the
\* request is sent again
Throttled(answer, retryCount) ==
  IF answer.status \notin {403, 429} \/ answer.limit = "none"
  THEN [called |-> FALSE, wantRetry |-> FALSE]
  ELSE [called |-> TRUE,
        wantRetry |-> IF answer.limit = "secondary" THEN onSecondaryRateLimit(retryCount)
                      ELSE onRateLimit(retryCount)]

\* the retry plugin on an error of the given status after `retried` retries of its own
Retried(status, retried) ==
  /\ status >= 400
  /\ ~ArrayIncludes(doNotRetry, JsNumber(status))
  /\ retried < DefaultRetries

\* the request is sent and answered
ClientAttempt(answer) ==
  /\ client.phase = "ready"
  /\ LET th == Throttled(answer, client.retryCount)
         sent == [client EXCEPT !.sends = @ + 1,
                                !.seen = @ \cup {answer},
                                !.notified = IF th.called THEN @ + 1 ELSE @,
                                !.asked = IF th.called
                                          THEN Append(@, [limit |-> answer.limit,
                                                          retryCount |-> client.retryCount,
                                                          wantRetry |-> th.wantRetry])
                                          ELSE @]
     IN client' =
          IF answer.status < 400 THEN [sent EXCEPT !.phase = "done"]
          ELSE IF th.wantRetry THEN [sent EXCEPT !.retryCount = @ + 1]
          ELSE IF Retried(answer.status, client.retried) THEN [sent EXCEPT !.retried = @ + 1]
          ELSE [sent EXCEPT !.phase = "failed"]
  /\ UNCHANGED <<cacheVars, harnessVars, billingVars, pipeVars>>

NextClient == \E answer \in Answers : ClientAttempt(answer)

SpecClient == InitClient /\ [][NextClient]_vars

(***************************************************************************)
(* SpecRun: run() of index.ts on a drawn command line, from its first line *)
(* to its exit. The listings of the three tiers are one step each here     *)
(* (Spec has their pages, tasks and cache entries). An option is [given,   *)
(* text], its text the sequence of its characters.                         *)
(***************************************************************************)
\* String.prototype.trim, for texts with spaces as their only white space
RECURSIVE TrimStart(_)
TrimStart(str) == IF Len(str) > 0 /\ Head(str) = " " THEN TrimStart(Tail(str)) ELSE str

RECURSIVE TrimEnd(_)
TrimEnd(str) ==
  IF Len(str) > 0 /\ str[Len(str)] = " " THEN TrimEnd(SubSeq(str, 1, Len(str) - 1)) ELSE str

trim(str) == TrimEnd(TrimStart(str))

RECURSIVE SplitFrom(_, _, _)
\* the parts of str from its part `part` on, the characters of which read so far
SplitFrom(str, sep, part) ==
  IF Len(str) = 0 THEN <<part>>
  ELSE IF Head(str) = sep THEN <<part>> \o SplitFrom(Tail(str), sep, << >>)
  ELSE SplitFrom(Tail(str), sep, Append(part, Head(str)))

\* String.prototype.split with a separator of one character
split(str, sep) == SplitFrom(str, sep, << >>)

\* the texts of the OS types a mapping may name
OSTexts == [linux |-> <<"l","i","n","u","x">>, windows |-> <<"w","i","n","d","o","w","s">>,
            macos |-> <<"m","a","c","o","s">>]

\* !a[i] for an array of strings: a[i] is undefined or the empty string
Falsy(a, i) == i > Len(a) \/ a[i] = << >>

\* the callback of parseLabelMappings's map on one entry
ParseMapping(mapping) ==
  LET parts == split(trim(mapping), ":")
  IN IF Falsy(parts, 1) \/ Falsy(parts, 2)
     THEN [threw |-> TRUE, message |-> "Invalid label mapping"]
     ELSE LET pattern == parts[1]
              os == parts[2]
              normalizedOS == toLowerCase(os)
          IN IF \A n \in DOMAIN OSTexts : OSTexts[n] # normalizedOS
             THEN [threw |-> TRUE, message |-> "Invalid OS type"]
             ELSE [threw |-> FALSE,
                   mapping |-> [pattern |-> toLowerCase(pattern),
                                os |-> CHOOSE n \in DOMAIN OSTexts : OSTexts[n] = normalizedOS]]

\* parseLabelMappings leaving out the entries it cannot parse
parseLabelMappingsSkipping(input) ==
  LET parsed == [i \in 1..Len(split(input, ",")) |-> ParseMapping(split(input, ",")[i])]
      good == SelectSeq(parsed, LAMBDA p : ~p.threw)
  IN [threw |-> FALSE, mappings |-> [i \in 1..Len(good) |-> good[i].mapping]]

\* parseLabelMappings: the mappings of the entries, or the throw of the first entry
\* that cannot be parsed
parseLabelMappings(input) ==
  IF input = << >> THEN [threw |-> FALSE, mappings |-> << >>]
  ELSE LET parsed == [i \in 1..Len(split(input, ",")) |-> ParseMapping(split(input, ",")[i])]
       IN IF \E i \in DOMAIN parsed : parsed[i].threw
          THEN [threw |-> TRUE,
                message |-> parsed[CHOOSE i \in DOMAIN parsed :
                                     parsed[i].threw /\ \A j \in 1..(i - 1) : ~parsed[j].threw].message]
          ELSE [threw |-> FALSE, mappings |-> [i \in DOMAIN parsed |-> parsed[i].mapping]]

NotGiven == [given |-> FALSE, text |-> << >>]
Given(text) == [given |-> TRUE, text |-> text]

\* --map "r*:linux,m*:bsd": the second entry names no OS type of the tool
MapSecondBad == <<"r","*",":","l","i","n","u","x",",","m","*",":","b","s","d">>

\* the values of --map drawn: empty, well-formed ones (one entry, capitals,
\* two entries, spaces around the entries, a third part), and malformed ones (an empty
\* entry, no colon, no pattern, no OS, unknown, a bad second entry, a space in the OS)
MapTexts ==
  { << >>,
    <<"r","*",":","l","i","n","u","x">>,
    <<"R","*",":","W","i","n","d","o","w","s">>,
    <<"r","*",":","l","i","n","u","x",",","m","*",":","m","a","c","o","s">>,
    <<" ","r","*",":","l","i","n","u","x"," ",","," ","m","*",":","m","a","c","o","s"," ">>,
    <<"r","*",":","l","i","n","u","x",":","x">>,
    <<"r","*",":","l","i","n","u","x",",">>,
    <<"r","*">>,
    <<":","l","i","n","u","x">>,
    <<"r","*",":">>,
    <<"r","*",":","u","n","k","n","o","w","n">>,
    MapSecondBad,
    <<"r","*",":"," ","l","i","n","u","x">> }

MapOptions == {NotGiven} \cup {Given(t) : t \in MapTexts}

\* a JavaScript number of run that holds an integer, or NaN
IntNumber(n) == [nan |-> FALSE, value |-> n]
NaN == [nan |-> TRUE, value |-> 0]

\* the value of a decimal digit, -1 for any other character
DigitOf(c) ==
  IF \E d \in 0..9 : Digits[d + 1] = c THEN CHOOSE d \in 0..9 : Digits[d + 1] = c ELSE -1

RECURSIVE DigitsValue(_, _)
\* the number that the leading digits of str continue acc to, and how many they are
DigitsValue(str, acc) ==
  IF Len(str) = 0 \/ DigitOf(Head(str)) < 0 THEN [value |-> acc, read |-> 0]
  ELSE LET rest == DigitsValue(Tail(str), 10 * acc + DigitOf(Head(str)))
       IN [value |-> rest.value, read |-> rest.read + 1]

\* parseInt(str, 10): white space, a sign, then the leading digits; NaN without a digit
parseInt(str) ==
  LET s == TrimStart(str)
      negative == Len(s) > 0 /\ Head(s) = "-"
      digits == DigitsValue(IF negative THEN Tail(s) ELSE s, 0)
  IN IF digits.read = 0 THEN NaN
     ELSE IntNumber(IF negative THEN -digits.value ELSE digits.value)

\* Math.max of an integer and a number
MathMax(a, x) == IF x.nan THEN NaN ELSE IntNumber(IF a > x.value THEN a ELSE x.value)

\* a Date: its time value in ms since 2024-01-01T00:00:00.000Z, or Invalid Date
DateAt(time) == [valid |-> TRUE, time |-> time]
InvalidDate == [valid |-> FALSE, time |-> 0]

\* the days of the months of 2024
DaysInMonth == <<31, 29, 31, 30, 31, 30, 31, 31, 30, 31, 30, 31>>

RECURSIVE DaysBefore(_)
\* the days of 2024 before month m
DaysBefore(m) == IF m = 1 THEN 0 ELSE DaysBefore(m - 1) + DaysInMonth[m - 1]

\* the number str[from..to] denotes, -1 unless all are digits
NumberAt(str, from, to) ==
  LET d == DigitsValue(SubSeq(str, from, to), 0)
  IN IF d.read = to - from + 1 THEN d.value ELSE -1

\* parseISO of date-fns on a text YYYY-MM-DD of 2024, the time zone of the process
\* being UTC: midnight of the day, or Invalid Date (parseISO does not throw)
parseISO(str) ==
  IF Len(str) # 10 \/ str[5] # "-" \/ str[8] # "-" THEN InvalidDate
  ELSE LET year == NumberAt(str, 1, 4)
           month == NumberAt(str, 6, 7)
           day == NumberAt(str, 9, 10)
       IN IF year < 0 \/ month \notin 1..12 THEN InvalidDate
          ELSE IF day \notin 1..DaysInMonth[month] THEN InvalidDate
          ELSE DateAt((DaysBefore(month) + day - 1) * MsPerDay)

\* startOfDay of date-fns: Invalid Date stays Invalid Date
startOfDay(date) ==
  IF ~date.valid THEN InvalidDate ELSE DateAt(date.time - (date.time % MsPerDay))

\* subDays of date-fns
subDays(date, amount) ==
  IF ~date.valid THEN InvalidDate ELSE DateAt(date.time - amount * MsPerDay)

\* differenceInDays of date-fns: the full days from dateRight to dateLeft, towards
\* zero; NaN when a date is invalid
differenceInDays(dateLeft, dateRight) ==
  IF ~dateLeft.valid \/ ~dateRight.valid THEN NaN
  ELSE LET diff == dateLeft.time - dateRight.time
       IN IntNumber(IF diff >= 0 THEN diff \div MsPerDay ELSE -((-diff) \div MsPerDay))

\* dayCount without the Math.max
dayCountOfDifference(endDate, startDate) == differenceInDays(endDate, startDate)

\* const dayCount = Math.max(1, differenceInDays(endDate, startDate))
dayCountOf(endDate, startDate) == MathMax(1, differenceInDays(endDate, startDate))

\* format(date, 'yyyy-MM-dd') and Date.prototype.toISOString throw a RangeError on
\* Invalid Date
ThrowsRangeError(date) == ~date.valid

\* what a division of Numbers gives that is no Number of [sig, exp]
NotANumber == [sig |-> << >>, exp |-> 0, special |-> "NaN"]
Infinity == [sig |-> << >>, exp |-> 0, special |-> "Infinity"]
IsSpecial(x) == "special" \in DOMAIN x

\* x / d for a Number x >= 0 and a number d that holds an integer >= 0, or NaN
NumberDividedBy(x, d) ==
  IF d.nan \/ IsSpecial(x) THEN NotANumber
  ELSE IF d.value = 0 THEN (IF x = Zero THEN NotANumber ELSE Infinity)
  ELSE IF x = Zero THEN Zero
  ELSE LET q == BigDiv(BigShift(x.sig, LiteralBits), d.value)
       IN RoundToNumber(q.q, x.exp - LiteralBits, q.r # 0)

\* x * n for a Number x, NaN or Infinity and an integer n > 0
TimesInteger(x, n) == IF IsSpecial(x) THEN x ELSE NumberTimes(x, n)

\* the one element of a set of one element
The(S) == CHOOSE x \in S : TRUE

\* projectCosts (dailyMinutes is computed and not used); each const is bound to its
\* value once
projectCosts(billing, daysOfData) ==
  The({The({[daily |-> dailyCost, weekly |-> TimesInteger(dailyCost, 7),
             monthly |-> TimesInteger(dailyCost, 30)] :
              dailyCost \in {NumberDividedBy(totalCost, daysOfData)}}) :
         totalCost \in {estimateCost(billing)}})

\* --start and --end: not given, 3 January, 10 January, 30 February, and no date
DateWords == <<"n","o","t","a","d","a","t","e">>
DateTexts ==
  { <<"2","0","2","4","-","0","1","-","0","3">>,
    <<"2","0","2","4","-","0","1","-","1","0">>,
    <<"2","0","2","4","-","0","2","-","3","0">>,
    DateWords }
DateOptions == {NotGiven} \cup {Given(t) : t \in DateTexts}

\* --days (commander hands its default when the option is not given): 3, 0, and no number
DaysTexts == {<<"3">>, <<"0">>, <<"x">>}

\* Date.now() of the invocation: noon of 10 January 2024
RunNow == 9 * MsPerDay + (MsPerDay \div 2)

\* --cache-ttl 30: parseInt(options.cacheTtl, 10) * 60 * 1000
RunCacheTtlMs == parseInt(<<"3","0">>).value * 60 * 1000

JobOfId(id) == CHOOSE j \in InputJobs : j.id = id

\* the jobs the server holds for the runs of the organization: none, a running one,
\* one of a minute, three of 100, 50 and 10 minutes
RunJobLists ==
  { << >>, <<JobOfId(3)>>, <<JobOfId(2)>>, <<JobOfId(6), JobOfId(7), JobOfId(8)>> }

\* the locals of run before run has assigned them
NoLocals ==
  [labelMappings |-> << >>, useCache |-> FALSE, cacheTtlMs |-> 0,
   startDate |-> InvalidDate, endDate |-> InvalidDate, dayCount |-> NaN,
   stats |-> FALSE, auth |-> FALSE]

\* a fresh entry of the repositories, saved an hour of the TTL's thirty minutes ago
SavedRepos(n) ==
  JsonFile([version |-> CACHE_VERSION, timestamp |-> RunNow - 60000, ttlMs |-> RunCacheTtlMs,
            data |-> [i \in 1..n |-> Repository(ApiRepo(i))]])

\* the command lines and servers drawn: every --map with the default date range, and
\* every date range without --map or with a malformed one
CommandLines ==
  [clearCache : BOOLEAN, map : MapOptions, start : {NotGiven}, end : {NotGiven},
   days : {<<"3">>}, output : {"table", "json", "csv"}, cache : BOOLEAN,
   nRepos : {1}, jobs : RunJobLists]
  \cup
  [clearCache : BOOLEAN, map : {NotGiven, Given(MapSecondBad)}, start : DateOptions,
   end : DateOptions, days : DaysTexts, output : {"table", "json", "csv"}, cache : BOOLEAN,
   nRepos : 0..1, jobs : {<<JobOfId(3)>>, <<JobOfId(6), JobOfId(7), JobOfId(8)>>}]

InitRun ==
  /\ pc = "start"
  /\ world \in CommandLines
  /\ opts = NoLocals
  /\ inv = 0 /\ failures = 0 /\ listing = << >>
  /\ repoList = << >> /\ runList = << >> /\ jobList = << >> /\ runW = << >> /\ jobW = << >>
  /\ tier = [t \in Tiers |-> FreshTier]
  /\ outcome = NoOutcome
  /\ now = RunNow
  /\ storage = "rw"
  /\ \/ cacheFiles = << >> /\ dirExists = FALSE
     \/ dirExists = TRUE /\ cacheFiles = [p \in {PathOf(ReposKey(Org))} |-> SavedRepos(world.nRepos)]
  /\ call = NoCall /\ sinceSet = << >> /\ stale = {}
  /\ BillingOff
  /\ ClientOff

\* !!options.x of an option that holds a string: given and not empty
Truthy(option) == option.given /\ option.text # << >>

\* run is over: it returned (exit code 0), or called process.exit(1)
Exit(kind, exitCode, report) ==
  /\ pc' = "done"
  /\ outcome' = [kind |-> kind, exitCode |-> exitCode, billing |-> report,
                 message |-> ExitMessage(kind)]

runUnused == <<inv, failures, listing, runW, jobW, now, harnessVars, client, billingVars>>

\* run with --clear-cache: the cache directory is emptied and run returns
RunClearCache ==
  /\ pc = "start"
  /\ world.clearCache
  /\ opts' = [opts EXCEPT !.stats = TRUE]
  /\ IF Cardinality(DOMAIN cacheFiles) = 0
     THEN UNCHANGED <<cacheFiles, dirExists, storage>>
     ELSE Install(clearCache(FS).fs)
  /\ Exit("cleared", 0, << >>)
  /\ UNCHANGED <<world, repoList, runList, jobList, tier, runUnused>>

\* run from `try {` to dayCount: the options are parsed and the date range is set
RunOptions ==
  /\ pc = "start"
  /\ ~world.clearCache
  /\ LET parsed == IF Truthy(world.map) THEN parseLabelMappings(world.map.text)
                   ELSE [threw |-> FALSE, mappings |-> << >>]
         days == parseInt(world.days)
         startDate == IF Truthy(world.start) THEN startOfDay(parseISO(world.start.text))
                      ELSE subDays(DateAt(now), days.value)
         endDate == IF Truthy(world.start) /\ Truthy(world.end)
                    THEN startOfDay(parseISO(world.end.text))
                    ELSE DateAt(now)
     IN IF parsed.threw
        THEN Exit("error", 1, << >>) /\ UNCHANGED opts
        ELSE IF ~Truthy(world.start) /\ (days.nan \/ days.value < 1)
        THEN Exit("daysError", 1, << >>) /\ UNCHANGED opts
        ELSE /\ opts' = [opts EXCEPT !.labelMappings = parsed.mappings,
                                     !.useCache = world.cache,
                                     !.cacheTtlMs = RunCacheTtlMs,
                                     !.startDate = startDate,
                                     !.endDate = endDate,
                                     !.dayCount = dayCountOf(endDate, startDate)]
             /\ pc' = "header"
             /\ UNCHANGED outcome
  /\ UNCHANGED <<world, repoList, runList, jobList, tier, cacheVars, harnessVars, client,
                 billingVars, inv, failures, listing, runW, jobW>>

\* the header: printed unless the output is json or csv, with the dates formatted and,
\* with caching on, the statistics of the cache directory
RunHeader ==
  /\ pc = "header"
  /\ IF world.output = "table"
     THEN IF ThrowsRangeError(opts.startDate) \/ ThrowsRangeError(opts.endDate)
          THEN Exit("error", 1, << >>) /\ UNCHANGED opts
          ELSE /\ opts' = [opts EXCEPT !.stats = opts.useCache]
               /\ pc' = "auth"
               /\ UNCHANGED outcome
     ELSE pc' = "auth" /\ UNCHANGED <<opts, outcome>>
  /\ UNCHANGED <<world, repoList, runList, jobList, tier, cacheVars, harnessVars, client,
                 billingVars, inv, failures, listing, runW, jobW>>

\* getAuth and createOctokit
RunAuth ==
  /\ pc = "auth"
  /\ opts' = [opts EXCEPT !.auth = TRUE]
  /\ pc' = "listRepos"
  /\ UNCHANGED <<world, repoList, runList, jobList, tier, outcome, cacheVars, harnessVars,
                 client, billingVars, inv, failures, listing, runW, jobW>>

\* a tier function was called: its cache lookup c, and the requests it sent on a miss
RunTier(c, requests) ==
  [FreshTier EXCEPT !.called = TRUE, !.reads = IF opts.useCache THEN 1 ELSE 0, !.hit = c.hit,
                    !.requests = IF c.hit THEN 0 ELSE requests,
                    !.writes = IF ~c.hit /\ opts.useCache THEN 1 ELSE 0]

\* the tier function returns the cached data, or what the server answered, after
\* saving it
RunTierResult(c, key, data) ==
  IF c.hit THEN [data |-> c.data, fs |-> c.fs]
  ELSE [data |-> data,
        fs |-> IF opts.useCache THEN setCache(c.fs, key, data, opts.cacheTtlMs, now) ELSE c.fs]

\* listOrgRepos, the organization's repositories being on one page, and run's test
\* for an empty list
RunListRepos ==
  /\ pc = "listRepos"
  /\ LET key == ReposKey(Org)
         c == ReadCache(opts, key, now)
         r == RunTierResult(c, key, [i \in 1..world.nRepos |-> Repository(ApiRepo(i))])
     IN /\ tier' = [tier EXCEPT !["repos"] = RunTier(c, 1)]
        /\ Install(r.fs)
        /\ repoList' = r.data
        /\ IF Len(r.data) = 0 THEN Exit("noRepos", 0, << >>)
           ELSE pc' = "fetchRuns" /\ UNCHANGED outcome
  /\ UNCHANGED <<world, opts, runList, jobList, runUnused>>

\* when the runs were created: run 1 on 10 January at 6:00, the others on 5 January
\* at 0:00
RunCreatedAt(id) == IF id = 1 THEN RunNow - (MsPerDay \div 4) ELSE 4 * MsPerDay

\* the completed runs the server holds: those the jobs of the server belong to
RunServerRuns(jobs) ==
  SelectSeq([i \in 1..Len(BillingRuns) |->
               BillingRuns[i] @@ [status |-> "completed", created_at |-> RunCreatedAt(i)]],
            LAMBDA r : \E k \in DOMAIN jobs : jobs[k].run_id = r.id)

\* fetchOrgWorkflowRuns, which computes its cache key first, and run's test for an
\* empty list
RunFetchRuns ==
  /\ pc = "fetchRuns"
  /\ IF ThrowsRangeError(opts.startDate) \/ ThrowsRangeError(opts.endDate)
     THEN /\ Exit("error", 1, << >>)
          /\ tier' = [tier EXCEPT !["runs"].called = TRUE]
          /\ UNCHANGED <<runList, cacheFiles, dirExists, storage>>
     ELSE LET key == RunsKey(repoList, opts.startDate.time, opts.endDate.time)
              c == ReadCache(opts, key, now)
              r == RunTierResult(c, key,
                     listWorkflowRuns(<<[ok |-> TRUE, data |-> RunServerRuns(world.jobs)]>>,
                                      opts.startDate.time, opts.endDate.time))
          IN /\ tier' = [tier EXCEPT !["runs"] = RunTier(c, Len(repoList))]
             /\ Install(r.fs)
             /\ runList' = r.data
             /\ IF Len(r.data) = 0 THEN Exit("noRuns", 0, << >>)
                ELSE pc' = "fetchJobs" /\ UNCHANGED outcome
  /\ UNCHANGED <<world, opts, repoList, jobList, runUnused>>

\* fetchAllJobs and run's test for an empty list
RunFetchJobs ==
  /\ pc = "fetchJobs"
  /\ LET key == JobsKey(runList)
         c == ReadCache(opts, key, now)
         r == RunTierResult(c, key,
                SelectSeq(world.jobs, LAMBDA j : /\ HasCompleted(j)
                                                /\ \E k \in DOMAIN runList : runList[k].id = j.run_id))
     IN /\ tier' = [tier EXCEPT !["jobs"] = RunTier(c, Len(runList))]
        /\ Install(r.fs)
        /\ jobList' = r.data
        /\ IF Len(r.data) = 0 THEN Exit("noJobs", 0, << >>)
           ELSE pc' = "report" /\ UNCHANGED outcome
  /\ UNCHANGED <<world, opts, repoList, runList, runUnused>>

\* aggregateBilling and outputResults, which calls estimateCost and projectCosts
RunReport ==
  /\ pc = "report"
  /\ \E billing \in {aggregateBilling(jobList, opts.labelMappings)} :
       Exit("report", 0, [billing |-> billing, estimatedCost |-> estimateCost(billing),
                          projections |-> projectCosts(billing, opts.dayCount)])
  /\ UNCHANGED <<world, opts, repoList, runList, jobList, tier, cacheVars, harnessVars, client,
                 billingVars, inv, failures, listing, runW, jobW>>

NextRun ==
  \/ RunClearCache
  \/ RunOptions
  \/ RunHeader
  \/ RunAuth
  \/ RunListRepos
  \/ RunFetchRuns
  \/ RunFetchJobs
  \/ RunReport

SpecRun == InitRun /\ [][NextRun]_vars

(***************************************************************************)
(* SpecList: listWorkflowRuns and listRunJobs called on drawn answers of   *)
(* the API: the items the server holds for the query, cut into pages of    *)
(* PerPage items, and the page whose request fails, if one does            *)
(***************************************************************************)
\* the runs the API may answer with, created on the days -2, -1, -1 and 0 (a day is
\* two ticks: the last one is created in the second half of day 0)
ListedRuns ==
  { ApiRun(1, "ci", 1, -3), ApiRun(2, Null, 1, -2), ApiRun(3, "ci", 1, -1), ApiRun(4, "ci", 1, 1) }

\* the instants of since and until: noon of day -1 to the start of day 0, the start
\* of day -1 alone, noon of day -2 to the start of day 0, the two halves of day -1
ListedRanges ==
  { [since |-> -1, until |-> 0], [since |-> -2, until |-> -2],
    [since |-> -3, until |-> 0], [since |-> -2, until |-> -1] }

NoRange == [since |-> 0, until |-> 0]

ListedJobs == {WorldJobs[i] : i \in DOMAIN WorldJobs}

ItemLists(S) == UNION {[1..n -> S] : n \in 0..MaxItems}

\* a call before it is made
ListCalls(fn, items, ranges) ==
  { c \in [phase : {"input"}, fn : {fn}, items : ItemLists(items), failAt : 0..MaxItems,
           range : ranges, requests : {0}, result : {<< >>}] :
      c.failAt <= NumPages(Len(c.items)) }

fnUnused ==
  <<bpc, bInput, bRuns, bMappings, bListed, bFetched, bArg, bResult, bCost, processed,
    cacheVars, harnessVars, client, pipeVars>>

InitList ==
  /\ fnCall \in ListCalls("listWorkflowRuns", ListedRuns, ListedRanges)
                  \cup ListCalls("listRunJobs", ListedJobs, {NoRange})
  /\ bpc = "off" /\ bInput = << >> /\ bRuns = << >> /\ bMappings = << >> /\ bListed = << >>
  /\ bFetched = << >>
  /\ bArg = << >> /\ bResult = << >> /\ bCost = << >>
  /\ JobOff
  /\ cacheFiles = << >> /\ dirExists = FALSE /\ storage = "rw" /\ now = 0
  /\ call = NoCall /\ sinceSet = << >> /\ stale = {}
  /\ PipeOff
  /\ ClientOff

\* listWorkflowRuns from its call to its return: the iterator requests page after
\* page until the last one or until a request throws
ListWorkflowRuns ==
  /\ fnCall.phase = "input" /\ fnCall.fn = "listWorkflowRuns"
  /\ LET pages == Responses(fnCall.items, fnCall.failAt)
     IN fnCall' = [fnCall EXCEPT
          !.phase = "returned",
          !.requests = Len(pages),
          !.result = listWorkflowRuns(pages, fnCall.range.since, fnCall.range.until)]
  /\ UNCHANGED fnUnused

\* listRunJobs from its call to its return
ListRunJobs ==
  /\ fnCall.phase = "input" /\ fnCall.fn = "listRunJobs"
  /\ LET pages == Responses(fnCall.items, fnCall.failAt)
     IN fnCall' = [fnCall EXCEPT
          !.phase = "returned",
          !.requests = Len(pages),
          !.result = listRunJobs(pages)]
  /\ UNCHANGED fnUnused

NextList ==
  \/ ListWorkflowRuns
  \/ ListRunJobs

SpecList == InitList /\ [][NextList]_vars

(***************************************************************************)
(* SpecPattern: one override of --map, as parseLabelMappings returns it,   *)
(* tried on one label by matchesPattern                                    *)
(***************************************************************************)
\* the patterns typed: with a wildcard at the end, in front, in the middle and alone,
\* with a capital, without a wildcard, with a "?", a "." and a "+"
TypedPatterns ==
  { <<"r","u","n","n","e","r","-","*">>,
    <<"R","u","n","n","e","r","-","*">>,
    <<"*","-","p","r","o","d">>,
    <<"r","*","r">>,
    <<"*">>,
    <<"r","u","n","n","e","r">>,
    <<"r","u","n","n","e","r","?">>,
    <<"?">>,
    <<"r",".","n">>,
    <<"a","+">> }

\* the labels tried
TriedLabels ==
  { LabelRunnerProd,
    <<"r","u","n","n","e","r","-">>,
    <<"R","u","n","n","e","r","-">>,
    <<"m","y","-","r","u","n","n","e","r","-","1">>,
    <<"r","u","n","n","e","r">>,
    <<"R","u","n","n","e","R">>,
    <<"r","u","n","n","e">>,
    <<"r","u","n","n","e","r","?">>,
    <<"?">>,
    <<"r",".","n">>,
    <<"r","x","n">>,
    <<"a","+">>,
    <<"a","a">>,
    << >> }

InitPattern ==
  /\ fnCall \in [phase : {"input"}, fn : {"matchesPattern"}, typed : TypedPatterns,
                 label : TriedLabels, pattern : {<< >>}, result : {<< >>}]
  /\ bpc = "off" /\ bInput = << >> /\ bRuns = << >> /\ bMappings = << >> /\ bListed = << >>
  /\ bFetched = << >>
  /\ bArg = << >> /\ bResult = << >> /\ bCost = << >>
  /\ JobOff
  /\ cacheFiles = << >> /\ dirExists = FALSE /\ storage = "rw" /\ now = 0
  /\ call = NoCall /\ sinceSet = << >> /\ stale = {}
  /\ PipeOff
  /\ ClientOff

\* parseLabelMappings on `<typed>:linux`, then matchesPattern on the label and the
\* pattern of the mapping
MatchesPattern ==
  /\ fnCall.phase = "input" /\ fnCall.fn = "matchesPattern"
  /\ \E parsed \in {parseLabelMappings(fnCall.typed \o <<":","l","i","n","u","x">>)} :
       /\ ~parsed.threw
       /\ fnCall' = [fnCall EXCEPT
            !.phase = "returned",
            !.pattern = parsed.mappings[1].pattern,
            !.result = matchesPattern(fnCall.label, parsed.mappings[1].pattern)]
  /\ UNCHANGED fnUnused

NextPattern == MatchesPattern

SpecPattern == InitPattern /\ [][NextPattern]_vars

(***************************************************************************)
(* SpecPeriod: groupByPeriod of index.ts on a drawn byDate.                 *)
(*                                                                         *)
(* The objects are kept in a heap (a sequence of buckets) and byDate and   *)
(* the returned record are lists of [key, ref] in the order the keys were  *)
(* inserted, which is the order of Object.entries. A day of 2024 is its    *)
(* number, 0 for 1 January, a Monday; parseISO gives local midnight of the *)
(* day and format writes the local date, so the time zone plays no part.   *)
(***************************************************************************)
\* parseISO on a key YYYY-MM-DD of 2024: the number of the day
parseISODay(str) == DaysBefore(NumberAt(str, 6, 7)) + NumberAt(str, 9, 10) - 1

\* Date.prototype.getDay: 0 for Sunday
getDay(day) == (day + 1) % 7

\* startOfWeek(date, { weekStartsOn: 1 }) of date-fns
startOfWeek(day) ==
  LET diff == (IF getDay(day) < 1 THEN 7 ELSE 0) + getDay(day) - 1
  IN day - diff

\* the month of the day
MonthOf(day) == CHOOSE m \in 1..12 : DaysBefore(m) <= day /\ day < DaysBefore(m) + DaysInMonth[m]

\* startOfMonth of date-fns
startOfMonth(day) == DaysBefore(MonthOf(day))

\* two digits
Pad2(n) == << Digits[(n \div 10) + 1], Digits[(n % 10) + 1] >>

\* format(date, 'yyyy-MM-dd') and format(date, 'yyyy-MM')
format(day, pattern) ==
  LET yearMonth == <<"2", "0", "2", "4", "-">> \o Pad2(MonthOf(day))
  IN IF pattern = "yyyy-MM" THEN yearMonth
     ELSE yearMonth \o <<"-">> \o Pad2(day - DaysBefore(MonthOf(day)) + 1)

\* the place of the key in the record, 0 when the record has no such property
PlaceOf(record, key) ==
  IF \E g \in DOMAIN record : record[g].key = key
  THEN CHOOSE g \in DOMAIN record : record[g].key = key
  ELSE 0

\* the three `+=` of the loop body on the object at ref, data being the object of the
\* byDate entry
Accumulate(heap, ref, data) ==
  [heap EXCEPT ![ref] = [minutes |-> heap[ref].minutes + heap[data].minutes,
                         billableMinutes |-> heap[ref].billableMinutes + heap[data].billableMinutes,
                         jobCount |-> heap[ref].jobCount + heap[data].jobCount]]

\* with `grouped[periodKey] = data` in place of the new object
GroupStepAliased(heap, grouped, periodKey, data) ==
  IF PlaceOf(grouped, periodKey) = 0
  THEN [heap |-> Accumulate(heap, data, data),
        grouped |-> Append(grouped, [key |-> periodKey, ref |-> data])]
  ELSE [heap |-> Accumulate(heap, grouped[PlaceOf(grouped, periodKey)].ref, data),
        grouped |-> grouped]

\* the body of the loop from `if (!grouped[periodKey])` on
GroupStep(heap, grouped, periodKey, data) ==
  IF PlaceOf(grouped, periodKey) = 0
  THEN [heap |-> Accumulate(Append(heap, ZeroBucket), Len(heap) + 1, data),
        grouped |-> Append(grouped, [key |-> periodKey, ref |-> Len(heap) + 1])]
  ELSE [heap |-> Accumulate(heap, grouped[PlaceOf(grouped, periodKey)].ref, data),
        grouped |-> grouped]

RECURSIVE GroupLoop(_, _, _, _, _)
\* for (const [dateStr, data] of Object.entries(byDate)), from entry i on
GroupLoop(heap, byDate, groupBy, i, grouped) ==
  IF i > Len(byDate) THEN [heap |-> heap, grouped |-> grouped]
  ELSE LET date == parseISODay(byDate[i].key)
           periodKey == IF groupBy = "week" THEN format(startOfWeek(date), "yyyy-MM-dd")
                        ELSE format(startOfMonth(date), "yyyy-MM")
           step == GroupStep(heap, grouped, periodKey, byDate[i].ref)
       IN GroupLoop(step.heap, byDate, groupBy, i + 1, step.grouped)

\* groupByPeriod: the heap after the call and the record returned
groupByPeriod(heap, byDate, groupBy) ==
  IF groupBy = "day" THEN [heap |-> heap, grouped |-> byDate]
  ELSE GroupLoop(heap, byDate, groupBy, 1, << >>)

\* the keys drawn: Sunday 28 January, Monday 29 January, Wednesday 31 January,
\* Thursday 1 February, Monday 5 February, Friday 1 March
DateKeys ==
  { <<"2","0","2","4","-","0","1","-","2","8">>, <<"2","0","2","4","-","0","1","-","2","9">>,
    <<"2","0","2","4","-","0","1","-","3","1">>, <<"2","0","2","4","-","0","2","-","0","1">>,
    <<"2","0","2","4","-","0","2","-","0","5">>, <<"2","0","2","4","-","0","3","-","0","1">> }

\* the buckets drawn
DateBuckets ==
  { [minutes |-> 1, billableMinutes |-> 2, jobCount |-> 1],
    [minutes |-> 5, billableMinutes |-> 5, jobCount |-> 2] }

\* the byDate records drawn: up to MaxDays entries with different keys, in any order
ByDates ==
  { e \in UNION {[1..n -> [key : DateKeys, data : DateBuckets]] : n \in 0..MaxDays} :
      \A i, j \in DOMAIN e : e[i].key = e[j].key => i = j }

InitPeriod ==
  /\ \E given \in ByDates, groupBy \in {"day", "week", "month"} :
       fnCall = [phase |-> "input", fn |-> "groupByPeriod", given |-> given, groupBy |-> groupBy,
                 heap |-> [i \in DOMAIN given |-> given[i].data],
                 byDate |-> [i \in DOMAIN given |-> [key |-> given[i].key, ref |-> i]],
                 result |-> << >>]
  /\ bpc = "off" /\ bInput = << >> /\ bRuns = << >> /\ bMappings = << >> /\ bListed = << >>
  /\ bFetched = << >>
  /\ bArg = << >> /\ bResult = << >> /\ bCost = << >>
  /\ JobOff
  /\ cacheFiles = << >> /\ dirExists = FALSE /\ storage = "rw" /\ now = 0
  /\ call = NoCall /\ sinceSet = << >> /\ stale = {}
  /\ PipeOff
  /\ ClientOff

\* groupByPeriod called on the drawn record
GroupByPeriod ==
  /\ fnCall.phase = "input" /\ fnCall.fn = "groupByPeriod"
  /\ \E r \in {groupByPeriod(fnCall.heap, fnCall.byDate, fnCall.groupBy)} :
       fnCall' = [fnCall EXCEPT !.phase = "returned", !.heap = r.heap, !.result = r.grouped]
  /\ UNCHANGED fnUnused

NextPeriod == GroupByPeriod

SpecPeriod == InitPeriod /\ [][NextPeriod]_vars

(***************************************************************************)
(* SpecShared: two invocations of the program on one cache directory.  Each *)
(* runs getCache and setCache on the same key; a call is a sequence of file *)
(* system calls (existsSync, readFileSync, unlinkSync; the open and the     *)
(* write of writeFileSync), and the calls of the two invocations interleave *)
(***************************************************************************)
Invocations == {1, 2}
SharedKey == <<"repos", "a">>
SharedPath == PathOf(SharedKey)

\* the file writeFileSync has opened with flag 'w' (truncated) and not yet written
Empty == [kind |-> "empty"]

\* an invocation between two calls
Idle == [pc |-> "idle", ttl |-> 0, content |-> NoFile, lost |-> FALSE, ret |-> NoCall]

Returns(p, r) == [Idle EXCEPT !.ret = r]
Null0 == [op |-> "get", hit |-> FALSE, data |-> << >>]

InitShared ==
  /\ storage = "rw"
  /\ dirExists \in BOOLEAN
  /\ \/ cacheFiles = << >>
     \/ /\ dirExists
        /\ \E e \in OldEntries : cacheFiles = [p \in {SharedPath} |-> e]
  /\ now = 0
  /\ fnCall = [phase |-> "shared", proc |-> [p \in Invocations |-> Idle], written |-> {}]
  /\ call = NoCall /\ sinceSet = << >> /\ stale = {}
  /\ bpc = "off" /\ bInput = << >> /\ bRuns = << >> /\ bMappings = << >> /\ bListed = << >>
  /\ bFetched = << >>
  /\ bArg = << >> /\ bResult = << >> /\ bCost = << >>
  /\ JobOff
  /\ PipeOff
  /\ ClientOff

sharedUnused == <<call, sinceSet, stale, bpc, bInput, bRuns, bMappings, bListed, bFetched, bArg,
                  bResult, bCost, processed, pipeVars, client>>

\* getCache up to existsSync: ensureCacheDir, then null when the file is not there
GetCacheExists(p, ttlMs) ==
  /\ fnCall.phase = "shared" /\ fnCall.proc[p].pc = "idle"
  /\ \E d \in {ensureCacheDir(FS)} :
       /\ Install(d.fs)
       /\ fnCall' = [fnCall EXCEPT !.proc[p] =
            IF ~d.ok \/ SharedPath \notin DOMAIN d.fs.files
            THEN Returns(p, Null0)
            ELSE [Idle EXCEPT !.pc = "read", !.ttl = ttlMs]]
  /\ UNCHANGED <<now, sharedUnused>>

\* readFileSync, JSON.parse and the two tests: a file that is gone, unreadable or
\* not JSON throws into the catch (null); an outdated entry is left to be unlinked
GetCacheRead(p) ==
  /\ fnCall.phase = "shared" /\ fnCall.proc[p].pc = "read"
  /\ \E content \in {FileAt(cacheFiles, SharedPath)} :
       fnCall' = [fnCall EXCEPT !.proc[p] =
         IF content.kind # "json" THEN Returns(p, Null0)
         ELSE IF content.version # CACHE_VERSION \/ now - content.timestamp > fnCall.proc[p].ttl
              THEN [fnCall.proc[p] EXCEPT !.pc = "unlink", !.content = content]
              ELSE Returns(p, [op |-> "get", hit |-> TRUE, data |-> content.data])]
  /\ UNCHANGED <<cacheVars, sharedUnused>>

\* unlinkSync(cachePath): whatever file stands at the path now is removed (a file
\* another invocation holds open stays with that invocation, off the path); a
\* path with no file throws into the catch; null either way
GetCacheUnlink(p) ==
  /\ fnCall.phase = "shared" /\ fnCall.proc[p].pc = "unlink"
  /\ Install(Unlink(FS, SharedPath).fs)
  /\ fnCall' = [fnCall EXCEPT !.proc =
       [q \in Invocations |->
          IF q = p THEN Returns(p, Null0)
          ELSE IF fnCall.proc[q].pc = "write" /\ SharedPath \in DOMAIN cacheFiles
               THEN [fnCall.proc[q] EXCEPT !.lost = TRUE]
               ELSE fnCall.proc[q]]]
  /\ UNCHANGED <<now, sharedUnused>>

\* setCache up to JSON.stringify(entry): ensureCacheDir, the entry stamped Date.now()
SetCacheEntry(p, data, ttlMs) ==
  /\ fnCall.phase = "shared" /\ fnCall.proc[p].pc = "idle"
  /\ \E d \in {ensureCacheDir(FS)} :
       /\ Install(d.fs)
       /\ fnCall' = [fnCall EXCEPT
            !.proc[p] =
               IF ~d.ok THEN Returns(p, [op |-> "set"])
               ELSE [Idle EXCEPT !.pc = "open", !.ttl = ttlMs,
                                 !.content = JsonFile([version |-> CACHE_VERSION,
                                                       timestamp |-> now, ttlMs |-> ttlMs,
                                                       data |-> data])],
            !.written = IF d.ok THEN @ \cup {StringifyData(data)} ELSE @]
  /\ UNCHANGED <<now, sharedUnused>>

\* writeFileSync opens the path with flag 'w': the file is created or truncated
SetCacheOpen(p) ==
  /\ fnCall.phase = "shared" /\ fnCall.proc[p].pc = "open"
  /\ Install(WriteFile(FS, SharedPath, Empty))
  /\ fnCall' = [fnCall EXCEPT !.proc[p].pc = "write"]
  /\ UNCHANGED <<now, sharedUnused>>

\* writeFileSync writes the string from offset 0 and closes.  A file unlinked
\* since the open is written off the path.  On a file the other invocation wrote
\* since the open, the string replaces it when it is at least as long, and leaves
\* the tail of the other string behind it (not JSON) when it is shorter
SetCacheWrite(p) ==
  /\ fnCall.phase = "shared" /\ fnCall.proc[p].pc = "write"
  /\ \E after \in IF fnCall.proc[p].lost THEN {NoFile}
                  ELSE IF FileAt(cacheFiles, SharedPath) = Empty
                       THEN {fnCall.proc[p].content}
                       ELSE {fnCall.proc[p].content, Garbage} :
       IF after = NoFile THEN UNCHANGED <<cacheFiles, dirExists, storage>>
       ELSE Install(WriteFile(FS, SharedPath, after))
  /\ fnCall' = [fnCall EXCEPT !.proc[p] = Returns(p, [op |-> "set"])]
  /\ UNCHANGED <<now, sharedUnused>>

NextShared ==
  \/ \E p \in Invocations, ttl \in Ttls : GetCacheExists(p, ttl)
  \/ \E p \in Invocations : GetCacheRead(p)
  \/ \E p \in Invocations : GetCacheUnlink(p)
  \/ \E p \in Invocations, d \in CallData, ttl \in Ttls : SetCacheEntry(p, d, ttl)
  \/ \E p \in Invocations : SetCacheOpen(p)
  \/ \E p \in Invocations : SetCacheWrite(p)
  \/ Tick

SpecShared == InitShared /\ [][NextShared]_vars

(***************************************************************************)
(* Properties                                                              *)
(***************************************************************************)
CompletedOf(jobs) == SelectSeq(jobs, HasCompleted)

RECURSIVE SumJobCount(_, _)
\* the sum of map[k].jobCount over the keys
SumJobCount(map, keys) ==
  IF keys = {} THEN 0
  ELSE LET k == CHOOSE x \in keys : TRUE
       IN map[k].jobCount + SumJobCount(map, keys \ {k})

\* C3: no job with a null completed_at is returned by listRunJobs or by fetchAllJobs,
\* and aggregateBilling returns what it returns for its input without these jobs:
\* they add nothing to jobCount, to jobs or to any rollup
C3_NullCompletedExcluded ==
  /\ \A i \in 1..Len(bListed) : \A j \in 1..Len(bListed[i]) : HasCompleted(bListed[i][j])
  /\ \A i \in 1..Len(bFetched) : HasCompleted(bFetched[i])
  /\ bpc = "aggregated" =>
       /\ bResult = aggregateBilling(CompletedOf(bArg), bMappings)
       /\ bResult.jobCount = Len(CompletedOf(bArg))
       /\ Len(bResult.jobs) = Len(CompletedOf(bArg))
       /\ \A i \in 1..Len(bResult.jobs) : HasCompleted(bResult.jobs[i].job)

\* aggregateBilling has run on a list holding a running job between completed ones
C3_Witness ==
  /\ bpc = "aggregated"
  /\ Len(bArg) = 3
  /\ HasCompleted(bArg[1]) /\ ~HasCompleted(bArg[2]) /\ HasCompleted(bArg[3])
  /\ bResult.jobCount = 2

\* C4: the jobCount of byOS, of byDate and of byRepo each sum to jobCount, which is
\* the number of input jobs with a non-null completed_at
C4_JobCountSums ==
  bpc = "aggregated" =>
    /\ SumJobCount(bResult.byOS, DOMAIN bResult.byOS) = bResult.jobCount
    /\ SumJobCount(bResult.byDate, DOMAIN bResult.byDate) = bResult.jobCount
    /\ SumJobCount(bResult.byRepo, DOMAIN bResult.byRepo) = bResult.jobCount
    /\ bResult.jobCount = Len(CompletedOf(bArg))

\* three completed jobs, two of them of one repository, on two days, one not counted
C4_Witness ==
  /\ bpc = "aggregated"
  /\ bResult.jobCount = 2
  /\ Len(bArg) = 3
  /\ Cardinality(DOMAIN bResult.byRepo) = 1
  /\ Cardinality(DOMAIN bResult.byDate) = 2

C10_RoundTrip ==
  ( /\ call.op = "get"
    /\ call.sinceSet.set
    /\ storage = "rw"
    /\ IsJSON(call.sinceSet.data)
    /\ call.at - call.sinceSet.at <= call.ttl )
  => call.hit /\ call.data = call.sinceSet.data

\* a get has returned the one-element array of a set that replaced another entry
C10_Witness ==
  /\ call.op = "get"
  /\ call.sinceSet.set
  /\ call.sinceSet.over.kind = "json"
  /\ call.sinceSet.over.data # call.sinceSet.data
  /\ Len(call.sinceSet.data) = 1
  /\ call.at > call.sinceSet.at
  /\ call.hit
  /\ call.data = call.sinceSet.data

\* what the tier function returned
Returned(t) == IF t = "repos" THEN repoList ELSE IF t = "runs" THEN runList ELSE jobList

Workers(t) == IF t = "runs" THEN runW ELSE jobW
Parents(t) == IF t = "runs" THEN repoList ELSE runList

InFlight(w) == Cardinality({i \in DOMAIN w : w[i].st = "running"})

StartsOnlyAfterAFinish(w, wNext) ==
  \A i \in DOMAIN w :
    (w[i].st = "queued" /\ i \in DOMAIN wNext /\ wNext[i].st = "running")
      => \E j \in DOMAIN w : w[j].st = "running" /\ wNext[j].st = "done"

\* C1: in fetchOrgWorkflowRuns and in fetchAllJobs at most `concurrency` listing calls
\* are in flight after every step, and a task that waited in the queue starts only in
\* a step in which a running task finishes.
C1_AtMostNInFlight ==
  [][/\ runW' # << >> => InFlight(runW') <= opts'.concurrency
     /\ jobW' # << >> => InFlight(jobW') <= opts'.concurrency
     /\ StartsOnlyAfterAFinish(runW, runW')
     /\ StartsOnlyAfterAFinish(jobW, jobW')]_vars

\* both tiers had more parents than `concurrency`; in the job tier a task that waited
\* is now running among `concurrency` running tasks
C1_Witness ==
  /\ pc = "fetchJobs"
  /\ Len(repoList) > opts.concurrency
  /\ tier["runs"].completed = Len(repoList)
  /\ Len(jobW) > opts.concurrency
  /\ opts.concurrency >= 2
  /\ InFlight(jobW) = opts.concurrency
  /\ \E i \in DOMAIN jobW : i > opts.concurrency /\ jobW[i].st = "running"

EveryRepository == [i \in 1..world.nRepos |-> Repository(ApiRepo(i))]

EveryWorkerFinished(t) ==
  /\ Len(Workers(t)) = Len(Parents(t))
  /\ \A i \in DOMAIN Workers(t) : Workers(t)[i].st = "done"

\* C2: within an invocation a listWorkflowRuns task exists only once listOrgRepos has
\* returned the complete list (the cached one, or the one of all pages), a listRunJobs
\* task exists only once fetchOrgWorkflowRuns has returned with every repository task
\* finished, and the report is made only once fetchAllJobs has returned.
C2_TiersSequential ==
  /\ runW # << >> =>
       /\ listing = NoListing
       /\ IF tier["repos"].hit THEN repoList = tier["repos"].entry.data
          ELSE repoList = EveryRepository /\ Len(tier["repos"].progress) = NumPages(world.nRepos)
  /\ jobW # << >> =>
       /\ tier["runs"].called
       /\ tier["runs"].hit \/ EveryWorkerFinished("runs")
  /\ (outcome # NoOutcome /\ outcome.kind = "report") =>
       /\ tier["jobs"].called
       /\ tier["jobs"].hit \/ EveryWorkerFinished("jobs")

\* a report made from three tiers fetched from the API, each of several units
C2_Witness ==
  /\ outcome # NoOutcome /\ outcome.kind = "report"
  /\ \A t \in Tiers : ~tier[t].hit
  /\ Len(tier["repos"].progress) >= 2
  /\ Len(runW) >= 2 /\ Len(jobW) >= 2

\* the runs of a repository on the server inside the date range
RunsOnServer(repo) ==
  LET inside == SelectSeq(WorldRuns, LAMBDA r : /\ r.repository.full_name = repo.full_name
                                               /\ r.created_at >= opts.since
                                               /\ r.created_at <= opts.until)
  IN [i \in 1..Len(inside) |-> WorkflowRun(inside[i])]

\* the completed jobs of a run on the server, with the run's repository and name
JobsOnServer(run) ==
  LET mine == SelectSeq(WorldJobs, LAMBDA j : j.run_id = run.id /\ ~IsNullTime(j.completed_at))
  IN JobsWithRepo(run, ToWorkflowJobs(mine))

OnServer(t, parent) == IF t = "runs" THEN RunsOnServer(parent) ELSE JobsOnServer(parent)

Contribution(t, i) == IF Workers(t)[i].failed THEN << >> ELSE OnServer(t, Parents(t)[i])

FullProgress(t) ==
  IF t = "repos" THEN [count |-> Len(tier[t].entry.data)]
  ELSE IF t = "runs" THEN [completed |-> Len(repoList), total |-> Len(repoList),
                           runCount |-> Len(tier[t].entry.data)]
  ELSE [completed |-> Len(runList), total |-> Len(runList)]

\* C7: a tier function called with caching on while a fresh entry is under its key
\* returns the entry's data, sends no request, has called the progress callback
\* exactly once, with the full count, and leaves the entry as it was.
C7_FreshEntryServed ==
  \A t \in Tiers :
    (tier[t].called /\ opts.useCache /\ tier[t].fresh) =>
      /\ Returned(t) = tier[t].entry.data
      /\ tier[t].requests = 0
      /\ Len(tier[t].progress) = 1
      /\ tier[t].last = FullProgress(t)
      /\ tier[t].writes = 0
      /\ FileAt(cacheFiles, tier[t].path) = tier[t].entry

\* an invocation whose three tiers were all served from fresh entries
C7_Witness ==
  /\ outcome # NoOutcome /\ outcome.kind = "report"
  /\ opts.useCache
  /\ \A t \in Tiers : tier[t].called /\ tier[t].fresh /\ Len(tier[t].entry.data) >= 2

\* C8: with useCache = false no tier function calls getCache or setCache, every tier
\* that is called sends requests, and the cache directory and its entries are what
\* they were when the tier was called.
C8_CacheOffUntouched ==
  (inv >= 1 /\ ~opts.useCache) =>
    \A t \in Tiers :
      /\ tier[t].reads = 0
      /\ tier[t].writes = 0
      /\ tier[t].called =>
           /\ ~tier[t].hit
           /\ tier[t].requests >= 1
           /\ cacheFiles = tier[t].before.files
           /\ dirExists = tier[t].before.dir

\* an invocation without cache that fetched all three tiers although a fresh entry
\* was under each key
C8_Witness ==
  /\ outcome # NoOutcome /\ outcome.kind = "report"
  /\ ~opts.useCache
  /\ \A t \in Tiers : tier[t].called /\ tier[t].fresh /\ tier[t].requests >= 1

TierComplete(t) ==
  IF t = "repos"
  THEN Len(tier[t].progress) = NumPages(world.nRepos) /\ repoList = EveryRepository
  ELSE EveryWorkerFinished(t)

\* C9: in an invocation a tier calls setCache at most once, and only when all its
\* pages (or all its tasks) are done; the entry then holds the tier's result; until
\* then the file under the tier's key is the one found at the call, or deleted; and an
\* invocation that ended in the error exit has written no repository entry.
C9_WrittenOnceWhenComplete ==
  \A t \in Tiers :
    /\ tier[t].writes <= 1
    /\ tier[t].writes = 1 =>
         /\ TierComplete(t)
         /\ storage = "rw" =>
              /\ tier[t].path \in DOMAIN cacheFiles
              /\ cacheFiles[tier[t].path].data = StringifyData(Returned(t))
    /\ (tier[t].called /\ tier[t].writes = 0) =>
         FileAt(cacheFiles, tier[t].path) \in {tier[t].entry, NoFile}
    /\ (t = "repos" /\ outcome # NoOutcome /\ outcome.kind = "error") => tier[t].writes = 0

\* the listing of the repositories failed after its first page, with caching on and
\* entries of an earlier invocation in the cache
C9_Witness ==
  /\ outcome # NoOutcome /\ outcome.kind = "error"
  /\ opts.useCache /\ storage = "rw"
  /\ Len(listing.repos) >= 1
  /\ tier["repos"].writes = 0
  /\ cacheFiles # << >>

\* what the API holds for the tier, less the listings that failed
Fetched(t) ==
  IF t = "repos" THEN EveryRepository
  ELSE Flatten([i \in 1..Len(Workers(t)) |-> Contribution(t, i)])

\* the tier function has returned to run
TierReturned(t) ==
  IF t = "repos" THEN pc # "listRepos" /\ outcome.kind # "error"
  ELSE IF t = "runs" THEN tier[t].called /\ pc # "fetchRuns"
  ELSE tier[t].called /\ pc # "fetchJobs"

\* the getCache of the tier met a storage error: the directory could not be created,
\* or the file under the key could not be read or parsed
GetCacheFailed(t) ==
  /\ tier[t].called /\ opts.useCache
  /\ \/ ~tier[t].before.dir /\ storage = "ro"
     \/ tier[t].entry.kind \in {"garbage", "unreadable"}

\* the setCache of the tier met a storage error: the directory cannot be written
SetCacheFailed(t) == tier[t].writes = 1 /\ storage = "ro"

\* C11: a storage error in getCache gives absent, so the tier sends requests and
\* returns what it fetched; a storage error in setCache leaves the file under the key
\* as it was and the tier returns what it fetched; the invocation ends in the error
\* exit only after a failed listing.
C11_StorageErrorsSwallowed ==
  /\ \A t \in Tiers :
       /\ GetCacheFailed(t) =>
            /\ ~tier[t].hit
            /\ tier[t].requests >= 1
            /\ TierReturned(t) => Returned(t) = Fetched(t)
       /\ SetCacheFailed(t) =>
            /\ FileAt(cacheFiles, tier[t].path) = tier[t].entry
            /\ TierReturned(t)
            /\ Returned(t) = Fetched(t)
  /\ (inv >= 1 /\ outcome.kind = "error") => failures >= 1

\* on a directory that cannot be written, with an unparsable file under the key of the
\* repositories, an invocation with caching on has fetched three tiers and made a report
C11_Witness ==
  /\ inv >= 1 /\ outcome.kind = "report"
  /\ opts.useCache /\ storage = "ro"
  /\ tier["repos"].entry = Garbage
  /\ GetCacheFailed("repos")
  /\ \A t \in Tiers : SetCacheFailed(t) /\ Len(Returned(t)) >= 2

PrimaryAnswers == {a \in Answers : a.limit = "primary"}
SecondaryAnswers == {a \in Answers : a.limit = "secondary"}

\* C12: a request answered by a primary rate limit on every attempt is sent at most 3
\* times; the handler is asked with the retry counts 0, 1, 2 and wants a retry exactly
\* for those below 2.
C12_Stated ==
  (client.phase # "off" /\ client.seen # {} /\ client.seen \subseteq PrimaryAnswers) =>
    /\ client.sends <= 3
    /\ \A i \in 1..Len(client.asked) :
         client.asked[i].wantRetry = (client.asked[i].retryCount < 2)

\* C13: a request answered by a secondary rate limit on every attempt is sent at most
\* 2 times; the handler wants a retry exactly for a retry count below 1.
C13_Stated ==
  (client.phase # "off" /\ client.seen # {} /\ client.seen \subseteq SecondaryAnswers) =>
    /\ client.sends <= 2
    /\ \A i \in 1..Len(client.asked) :
         client.asked[i].wantRetry = (client.asked[i].retryCount < 1)

\* a page request of listOrgRepos has failed in the invocation
RepoListingFailed == inv >= 1 /\ pc # "listRepos" /\ listing # NoListing

\* C14: when the listing of the repositories fails, the invocation ends in the error
\* exit with a non-zero code and without a report; listOrgRepos has returned no list,
\* no run or job fetch has started, and no repository entry has been written: the
\* file under the key is the one found at the call, or deleted.
C14_RepoListingFailureFatal ==
  RepoListingFailed =>
    /\ pc = "idle"
    /\ outcome.kind = "error" /\ outcome.exitCode # 0
    /\ outcome.billing = << >>
    /\ repoList = << >>
    /\ ~tier["runs"].called /\ ~tier["jobs"].called
    /\ tier["runs"].requests = 0 /\ tier["jobs"].requests = 0
    /\ runW = << >> /\ jobW = << >> /\ runList = << >> /\ jobList = << >>
    /\ tier["repos"].writes = 0
    /\ FileAt(cacheFiles, tier["repos"].path) \in {tier["repos"].entry, NoFile}

\* the listing failed after a first page of a second invocation with caching on, which
\* found a stale repository entry of the first
C14_Witness ==
  /\ RepoListingFailed
  /\ inv = 2 /\ opts.useCache /\ storage = "rw"
  /\ Len(listing.repos) >= 1
  /\ tier["repos"].entry.kind = "json"
  /\ outcome.kind = "error"

\* the duration of the processed job in ms
DurationMs == getTime(processed.job.completed_at) - getTime(processed.job.started_at)

\* C15: the duration in minutes of a job is the ceiling of its duration in ms over
\* 60000: the least k with duration <= k * 60000; so 1 ms to 60000 ms give 1, k * 60000
\* ms give k and k * 60000 + 1 ms give k + 1.
C15_DurationRoundsUp ==
  (processed.phase = "done" /\ DurationMs >= 0) =>
    LET k == processed.billing.durationMinutes
    IN /\ k = calculateDurationMinutes(processed.job.started_at, processed.job.completed_at)
       /\ DurationMs <= k * 60000
       /\ DurationMs > (k - 1) * 60000
       /\ DurationMs \in 1..60000 => k = 1
       /\ DurationMs % 60000 = 0 => k = DurationMs \div 60000
       /\ DurationMs % 60000 = 1 => k = DurationMs \div 60000 + 1

\* a job of 1 second that ends on the day after its start
C15_Witness ==
  /\ processed.phase = "done"
  /\ DurationMs = 1000
  /\ processed.job.completed_at.day = processed.job.started_at.day + 1
  /\ processed.billing.durationMinutes = 1

\* the multipliers of the README's table, with unknown billed as linux
TableMultiplier(os) ==
  CASE os = "linux" -> 1 [] os = "windows" -> 2 [] os = "macos" -> 10 [] os = "unknown" -> 1

\* C16: the BillingResult of processJob has the multiplier of its OS by the fixed table
\* (linux 1, windows 2, macos 10, unknown 1) and billableMinutes = durationMinutes *
\* multiplier; a job classified unknown is billed as the same job labelled linux.
C16_MultiplierTable ==
  processed.phase = "done" =>
    LET b == processed.billing
        asLinux == processJob([processed.job EXCEPT !.labels = <<DEFAULT_PATTERNS[2].pattern>>],
                              << >>)
    IN /\ b.os \in OSTypes
       /\ b.os = detectOS(processed.job.labels, processed.mappings)
       /\ b.multiplier = TableMultiplier(b.os)
       /\ b.billableMinutes = b.durationMinutes * b.multiplier
       /\ b.os = "unknown" =>
            /\ asLinux.os = "linux"
            /\ b.billableMinutes = asLinux.billableMinutes

\* a job of two minutes that no mapping and no pattern classifies
C16_Witness ==
  /\ processed.phase = "done"
  /\ processed.billing.os = "unknown"
  /\ processed.job.labels = <<LabelSelfHosted, LabelArm>>
  /\ processed.billing.durationMinutes = 2
  /\ processed.billing.billableMinutes = 2

RECURSIVE GlobMatches(_, _)
\* the label is the pattern, letter case aside, with each "*" standing for any text
GlobMatches(label, pattern) ==
  IF Len(pattern) = 0 THEN Len(label) = 0
  ELSE IF Head(pattern) = "*"
       THEN \/ GlobMatches(label, Tail(pattern))
            \/ Len(label) > 0 /\ GlobMatches(Tail(label), pattern)
       ELSE /\ Len(label) > 0
            /\ LowerChar(Head(label)) = LowerChar(Head(pattern))
            /\ GlobMatches(Tail(label), Tail(pattern))

\* the overrides of the list that match some label
MatchingOverrides(labels, mappings) ==
  {i \in 1..Len(mappings) : \E j \in 1..Len(labels) : GlobMatches(labels[j], mappings[i].pattern)}

\* C17: when some override matches some label, detectOS gives the OS of the first
\* override of the list that matches any label, whatever the built-in table gives for
\* the labels; [self-hosted, runner-42-prod] is linux under runner-*:linux and unknown
\* without mappings.
C17_OverridesFirst ==
  processed.phase = "done" =>
    LET labels == processed.job.labels
        mappings == processed.mappings
        hits == MatchingOverrides(labels, mappings)
    IN /\ hits # {} =>
            \E i \in hits : /\ \A j \in hits : i <= j
                            /\ processed.billing.os = mappings[i].os
       /\ (labels = <<LabelSelfHosted, LabelRunnerProd>>
             /\ mappings = << [pattern |-> PatternRunner, os |-> "linux"] >>)
            => processed.billing.os = "linux"
       /\ (labels = <<LabelSelfHosted, LabelRunnerProd>> /\ mappings = << >>)
            => processed.billing.os = "unknown"

\* the second label matches the first override and the first label the second: the
\* first override decides
C17_Witness ==
  /\ processed.phase = "done"
  /\ processed.job.labels = <<LabelRunnerProd, LabelSelfHosted>>
  /\ MatchingOverrides(processed.job.labels, processed.mappings) = {1, 2}
  /\ processed.mappings[1].os = "macos"
  /\ processed.billing.os = "macos"

\* the OS the built-in table assigns to a token
TableOS(token) ==
  LET i == CHOOSE k \in 1..Len(DEFAULT_PATTERNS) : DEFAULT_PATTERNS[k].pattern = token
  IN DEFAULT_PATTERNS[i].os

\* C18: without mappings, a job whose only label is a token of the built-in table has
\* the OS the table assigns to the token: ubuntu, linux give linux; windows, win give
\* windows; macos, mac, darwin give macos.
C18_Stated ==
  ( /\ processed.phase = "done"
    /\ processed.mappings = << >>
    /\ Len(processed.job.labels) = 1
    /\ processed.job.labels[1] \in TokenLabels )
  => /\ processed.billing.os = TableOS(processed.job.labels[1])
     /\ TableOS(<<"d","a","r","w","i","n">>) = "macos"
     /\ TableOS(<<"w","i","n">>) = "windows"
     /\ TableOS(<<"u","b","u","n","t","u">>) = "linux"

\* the pattern occurs in the label, letter case aside
OccursIn(pattern, label) ==
  \E i \in 1..(Len(label) - Len(pattern) + 1) :
    toLowerCase(SubSeq(label, i, i + Len(pattern) - 1)) = toLowerCase(pattern)

\* the patterns of the built-in table that occur in some label
OccurringPatterns(labels) ==
  {k \in 1..Len(DEFAULT_PATTERNS) :
     \E j \in 1..Len(labels) : OccursIn(DEFAULT_PATTERNS[k].pattern, labels[j])}

\* Array.prototype.reverse
Reversed(seq) == [i \in 1..Len(seq) |-> seq[Len(seq) + 1 - i]]

\* C19: when no override matches, detectOS gives the OS of the earliest pattern, in the
\* order ubuntu, linux, windows, win, macos, mac, darwin, that occurs in some label,
\* letter case aside, and unknown when none occurs; the labels in another order give
\* the same OS: [ubuntu-latest, macos-large] and [macos-large, ubuntu-latest] are linux.
C19_EarliestPatternWins ==
  (processed.phase = "done"
     /\ MatchingOverrides(processed.job.labels, processed.mappings) = {}) =>
    LET labels == processed.job.labels
        occ == OccurringPatterns(labels)
    IN /\ [i \in 1..Len(DEFAULT_PATTERNS) |-> DEFAULT_PATTERNS[i].pattern]
            = << <<"u","b","u","n","t","u">>, <<"l","i","n","u","x">>,
                 <<"w","i","n","d","o","w","s">>, <<"w","i","n">>, <<"m","a","c","o","s">>,
                 <<"m","a","c">>, <<"d","a","r","w","i","n">> >>
       /\ occ = {} => processed.billing.os = "unknown"
       /\ occ # {} => \E k \in occ : /\ \A j \in occ : k <= j
                                     /\ processed.billing.os = DEFAULT_PATTERNS[k].os
       /\ processed.billing.os = detectOS(Reversed(labels), processed.mappings)
       /\ labels \in {<<LabelUbuntuLatest, LabelMacosLarge>>, <<LabelMacosLarge, LabelUbuntuLatest>>}
            => processed.billing.os = "linux"

\* the macos label comes first and the ubuntu label second, under a mapping list that
\* matches neither
C19_Witness ==
  /\ processed.phase = "done"
  /\ processed.job.labels = <<LabelMacosLarge, LabelUbuntuLatest>>
  /\ Len(processed.mappings) = 2
  /\ MatchingOverrides(processed.job.labels, processed.mappings) = {}
  /\ processed.billing.os = "linux"

\* the sum of the four products, each and each partial sum rounded as a Number
CostOfMinutes(linux, windows, macos, unknown) ==
  NumberPlus(NumberPlus(NumberPlus(NumberTimes(NumberLiteral(8, 1000), linux),
                                   NumberTimes(NumberLiteral(16, 1000), windows)),
                        NumberTimes(NumberLiteral(8, 100), macos)),
             NumberTimes(NumberLiteral(8, 1000), unknown))

\* the raw minutes of the result are 100 linux, 50 windows, 10 macos and 0 unknown
ExampleMinutes ==
  /\ bResult.byOS["linux"].minutes = 100 /\ bResult.byOS["windows"].minutes = 50
  /\ bResult.byOS["macos"].minutes = 10 /\ bResult.byOS["unknown"].minutes = 0

\* C20 as stated: estimateCost is the sum over the four OS of the raw minutes times the
\* rate of the OS (0.008, 0.016, 0.08, 0.008); it equals totalBillableMinutes * 0.008;
\* 100 linux, 50 windows, 10 macos and 0 unknown minutes give 2.40.
C20_Stated ==
  bpc = "estimated" =>
    /\ bCost = CostOfMinutes(bResult.byOS["linux"].minutes, bResult.byOS["windows"].minutes,
                             bResult.byOS["macos"].minutes, bResult.byOS["unknown"].minutes)
    /\ bCost = NumberTimes(NumberLiteral(8, 1000), bResult.totalBillableMinutes)
    /\ ExampleMinutes => bCost = NumberLiteral(240, 100)

\* the rates in thousandths of a dollar
RateMills(os) ==
  CASE os = "linux" -> 8 [] os = "windows" -> 16 [] os = "macos" -> 80 [] os = "unknown" -> 8

RECURSIVE BigToNat(_)
BigToNat(a) == IF Len(a) = 0 THEN 0 ELSE Head(a) + Base * BigToNat(Tail(a))

\* the digits Number.prototype.toFixed(2) prints for a Number below 2^Precision, as
\* an integer: the hundredths nearest to x, the larger ones on a tie
ToFixed2(x) ==
  IF x = Zero THEN 0
  ELSE LET n == BigTimes(x.sig, 100)
       IN BigToNat(BigShiftRight(n, -x.exp)) + BigBit(n, -x.exp)

\* the Number x, below 2^Precision, lies within ulps units in its last place of
\* mills / 1000
WithinUlps(x, mills, ulps) ==
  IF x = Zero THEN mills = 0
  ELSE LET a == BigTimes(x.sig, 1000)
           b == BigShift(BigOf(mills), -x.exp)
           c == BigOf(1000 * ulps)
       IN BigLeq(a, BigAdd(b, c)) /\ BigLeq(b, BigAdd(a, c))

\* C20 amended: estimateCost is the sum, taken in Number arithmetic in the order linux,
\* windows, macos, unknown, of the raw minutes times the rate of the OS; in exact
\* arithmetic that sum is totalBillableMinutes * 0.008, and the value computed lies
\* within 6 units in its last place of it; for 100 linux, 50 windows, 10 macos and 0
\* unknown minutes it is the Number next above 2.4, which toFixed(2) prints as 2.40.
C20_CostOfRawMinutes ==
  bpc = "estimated" =>
    /\ bCost = CostOfMinutes(bResult.byOS["linux"].minutes, bResult.byOS["windows"].minutes,
                             bResult.byOS["macos"].minutes, bResult.byOS["unknown"].minutes)
    /\ bResult.byOS["linux"].minutes * RateMills("linux")
         + bResult.byOS["windows"].minutes * RateMills("windows")
         + bResult.byOS["macos"].minutes * RateMills("macos")
         + bResult.byOS["unknown"].minutes * RateMills("unknown")
       = bResult.totalBillableMinutes * 8
    /\ WithinUlps(bCost, bResult.totalBillableMinutes * 8, 6)
    /\ ExampleMinutes =>
         /\ bCost.exp = NumberLiteral(240, 100).exp
         /\ bCost.sig = BigAdd(NumberLiteral(240, 100).sig, <<1>>)
         /\ ToFixed2(bCost) = 240

\* the cost of a 100 minute linux job, a 50 minute windows job and a 10 minute macos job
C20_Witness ==
  /\ bpc = "estimated"
  /\ ExampleMinutes
  /\ bResult.totalBillableMinutes = 300
  /\ bResult.jobCount = 3
  /\ bCost # NumberTimes(NumberLiteral(8, 1000), bResult.totalBillableMinutes)

\* aggregateBilling has returned
Aggregated == bpc \in {"aggregated", "estimated"}

\* the completed jobs of the list whose repository and workflow name, "unknown" for a
\* run without name, make the key
JobsOfKey(jobs, key) ==
  {i \in 1..Len(jobs) :
     /\ HasCompleted(jobs[i])
     /\ key = jobs[i].repo_full_name \o "/" \o
              (IF Field(jobs[i], "workflow_name") \in {Null, Undefined, ""}
               THEN "unknown" ELSE jobs[i].workflow_name)}

\* C22: runCount is the number of distinct run ids among the completed jobs; the
\* runCount of a byWorkflow key is the number of distinct run ids among the completed
\* jobs of the key; so runCount <= jobCount and, for every key, 1 <= runCount <= jobCount.
C22_RunCounts ==
  Aggregated =>
    /\ bResult.runCount = Cardinality({bArg[i].run_id : i \in {j \in 1..Len(bArg) : HasCompleted(bArg[j])}})
    /\ bResult.runCount <= bResult.jobCount
    /\ \A k \in DOMAIN bResult.byWorkflow :
         /\ bResult.byWorkflow[k].runCount = Cardinality({bArg[i].run_id : i \in JobsOfKey(bArg, k)})
         /\ bResult.byWorkflow[k].jobCount = Cardinality(JobsOfKey(bArg, k))
         /\ 1 <= bResult.byWorkflow[k].runCount
         /\ bResult.byWorkflow[k].runCount <= bResult.byWorkflow[k].jobCount

\* two jobs of one run and a job of a run of another repository: three jobs, two runs,
\* and a workflow with two jobs of one run
C22_Witness ==
  /\ Aggregated
  /\ bResult.jobCount = 3 /\ bResult.runCount = 2
  /\ \E k \in DOMAIN bResult.byWorkflow :
       bResult.byWorkflow[k].jobCount = 2 /\ bResult.byWorkflow[k].runCount = 1

\* the list in the order perm
Permuted(jobs, perm) == [i \in 1..Len(jobs) |-> jobs[perm[i]]]

\* the number of times each BillingResult occurs in the list
Occurrences(results) ==
  [x \in {results[i] : i \in 1..Len(results)} |->
     Cardinality({i \in 1..Len(results) : results[i] = x})]

\* C23: aggregateBilling on a permutation of its job list, with the same mappings,
\* returns the same totalMinutes, totalBillableMinutes, jobCount, runCount, byOS,
\* byWorkflow, byRepo (workflow sets included) and byDate, and the same jobs in
\* another order.
C23_OrderIndependent ==
  Aggregated =>
    \A perm \in Permutations(1..Len(bArg)) :
      LET other == aggregateBilling(Permuted(bArg, perm), bMappings)
      IN /\ other.totalMinutes = bResult.totalMinutes
         /\ other.totalBillableMinutes = bResult.totalBillableMinutes
         /\ other.jobCount = bResult.jobCount
         /\ other.runCount = bResult.runCount
         /\ other.byOS = bResult.byOS
         /\ other.byWorkflow = bResult.byWorkflow
         /\ other.byRepo = bResult.byRepo
         /\ other.byDate = bResult.byDate
         /\ Occurrences(other.jobs) = Occurrences(bResult.jobs)

\* three different completed jobs of different durations, two of them of one
\* repository and one day
C23_Witness ==
  /\ Aggregated
  /\ Len(bArg) = 3 /\ bResult.jobCount = 3
  /\ Cardinality({bResult.jobs[i].durationMinutes : i \in 1..3}) = 3
  /\ Cardinality(DOMAIN bResult.byRepo) = 2
  /\ Cardinality(DOMAIN bResult.byDate) = 2
  /\ aggregateBilling(Permuted(bArg, <<3, 1, 2>>), bMappings).jobs # bResult.jobs

\* the list 1, 2, ..., n
UpTo(n) == [k \in 1..n |-> k]

NonDecreasing(xs) == \A k \in 1..Len(xs) - 1 : xs[k] <= xs[k + 1]

\* C25: on a cache miss the counts that fetchOrgWorkflowRuns and fetchAllJobs pass to
\* the progress callback are 1, 2, ... up to the number of tasks finished so far, in
\* this order, whatever the order in which the tasks finish, and are 1, ..., M with M
\* the number of parents once the function has returned; the counts of listOrgRepos
\* never decrease and the last one is the number of repositories it returns.
C25_ProgressCountsInOrder ==
  /\ \A t \in {"runs", "jobs"} :
       (tier[t].called /\ ~tier[t].hit) =>
         /\ tier[t].progress = UpTo(Cardinality({i \in DOMAIN Workers(t) : Workers(t)[i].st = "done"}))
         /\ TierReturned(t) =>
              /\ tier[t].progress = UpTo(Len(Parents(t)))
              /\ tier[t].last.completed = Len(Parents(t))
              /\ tier[t].last.total = Len(Parents(t))
  /\ (tier["repos"].called /\ ~tier["repos"].hit) =>
       /\ NonDecreasing(tier["repos"].progress)
       /\ TierReturned("repos") =>
            /\ tier["repos"].progress # << >>
            /\ tier["repos"].progress[Len(tier["repos"].progress)] = Len(repoList)

\* a report of three repositories listed on several pages and of several runs, fetched
\* from the API by tasks run two at a time
C25_Witness ==
  /\ outcome # NoOutcome /\ outcome.kind = "report"
  /\ \A t \in Tiers : tier[t].called /\ ~tier[t].hit
  /\ Len(tier["repos"].progress) >= 2
  /\ tier["runs"].progress = UpTo(Len(repoList)) /\ Len(repoList) >= 3
  /\ tier["jobs"].progress = UpTo(Len(runList)) /\ Len(runList) >= 2
  /\ world.concurrency >= 2

\* the run of runs that the job belongs to
ParentRun(runs, job) == CHOOSE r \in {runs[i] : i \in DOMAIN runs} : r.id = job.run_id

\* fetchAllJobs has fetched its jobs from the API and returned them
JobsFetched == tier["jobs"].called /\ ~tier["jobs"].hit /\ TierReturned("jobs")

\* C29 as stated: every job that fetchAllJobs returns carries its run's repository
\* full name, and its run's name or "unknown" when the run has none.
C29_Stated ==
  JobsFetched =>
    \A k \in DOMAIN jobList :
      LET run == ParentRun(runList, jobList[k])
      IN /\ jobList[k].repo_full_name = run.repository.full_name
         /\ jobList[k].workflow_name =
              (IF Field(run, "name") \in {Null, Undefined} THEN "unknown" ELSE run.name)

\* C29 amended: every job that fetchAllJobs fetches carries its run's repository full
\* name and its run's name as it is, null when the run has none, in the list returned
\* and in the list written to the cache; aggregateBilling puts "unknown" in the place
\* of a missing name in the workflow key and in the workflow set of the repository.
C29_RunNameCarriedAsIs ==
  /\ JobsFetched =>
       /\ \A k \in DOMAIN jobList :
            LET run == ParentRun(runList, jobList[k])
            IN /\ jobList[k].repo_full_name = run.repository.full_name
               /\ jobList[k].workflow_name = Field(run, "name")
       /\ (tier["jobs"].writes = 1 /\ FileAt(cacheFiles, tier["jobs"].path) # tier["jobs"].entry) =>
            FileAt(cacheFiles, tier["jobs"].path).data = jobList
  /\ (JobsFetched /\ outcome.kind = "report") =>
       \A k \in DOMAIN jobList :
         (HasCompleted(jobList[k]) /\ jobList[k].workflow_name = Null) =>
           /\ (jobList[k].repo_full_name \o "/unknown") \in DOMAIN outcome.billing.byWorkflow
           /\ "unknown" \in outcome.billing.byRepo[jobList[k].repo_full_name].workflows

\* a report over fetched jobs, one of a run without a name and one of a run with one
C29_Witness ==
  /\ JobsFetched /\ outcome.kind = "report"
  /\ \E k \in DOMAIN jobList : HasCompleted(jobList[k]) /\ jobList[k].workflow_name = Null
  /\ \E k \in DOMAIN jobList : HasCompleted(jobList[k]) /\ jobList[k].workflow_name = "ci"
  /\ tier["jobs"].writes = 1 /\ FileAt(cacheFiles, tier["jobs"].path) # NoFile

EmptyExits == {"noRepos", "noRuns", "noJobs"}

\* C28: an empty repository list ends the invocation before fetchOrgWorkflowRuns is
\* called, an empty run list before fetchAllJobs is called, an empty job list before
\* aggregateBilling and the report; each of the three exits prints a message that
\* neither of the other two prints and returns with exit code 0.
C28_EmptyListsEndEarly ==
  /\ (tier["repos"].called /\ TierReturned("repos") /\ repoList = << >>) =>
       /\ ~tier["runs"].called /\ ~tier["jobs"].called
       /\ runW = << >> /\ jobW = << >>
       /\ pc = "idle" => outcome.kind = "noRepos"
  /\ (tier["runs"].called /\ TierReturned("runs") /\ runList = << >>) =>
       /\ ~tier["jobs"].called
       /\ jobW = << >>
       /\ pc = "idle" => outcome.kind = "noRuns"
  /\ (tier["jobs"].called /\ TierReturned("jobs") /\ jobList = << >> /\ pc = "idle") =>
       outcome.kind = "noJobs"
  /\ outcome.kind \in EmptyExits =>
       /\ outcome.exitCode = 0
       /\ outcome.billing = << >>
       /\ outcome.message # ""
       /\ \A other \in EmptyExits \ {outcome.kind} : outcome.message # ExitMessage(other)
  /\ outcome.kind = "report" => jobList # << >> /\ outcome.message = ""

\* an organization without repositories
C28_WitnessNoRepos ==
  /\ outcome.kind = "noRepos" /\ tier["repos"].requests = 1 /\ world.nRepos = 0

\* repositories whose run listings all came back empty
C28_WitnessNoRuns ==
  /\ outcome.kind = "noRuns" /\ Len(repoList) >= 1 /\ tier["runs"].completed = Len(repoList)

\* runs whose job listings hold no completed job
C28_Witness ==
  /\ outcome.kind = "noJobs" /\ Len(runList) >= 1 /\ tier["jobs"].completed = Len(runList)

\* the paths of the entries fetchAllJobs writes for the run lists the server can give
JobsPaths ==
  {PathOf(JobsKey(SelectSeq(WorldRuns, LAMBDA r : r.id \in ids))) :
     ids \in SUBSET {WorldRuns[i].id : i \in DOMAIN WorldRuns}}

\* the invocation under way is the second one, has caching on, and started within the
\* cache TTL of an invocation with the same options that got through its three tiers
\* and saved each: the directory it found holds an entry of fetchAllJobs of that age
SecondWithinTtl ==
  /\ inv = 2 /\ opts.useCache /\ tier["repos"].called
  /\ \E p \in JobsPaths :
       LET file == FileAt(tier["repos"].before.files, p)
       IN file.kind = "json" /\ now - file.timestamp <= CacheTtlOption

\* C30 as stated: with caching on, a second invocation with the same options, started
\* within the cache TTL of a first successful one, is served from the cache by every
\* tier function it calls and sends no listing request.
C30_Stated ==
  SecondWithinTtl => \A t \in Tiers : tier[t].called => (tier[t].hit /\ tier[t].requests = 0)

\* run has set its locals: the options were parsed and the date range was set
OptionsParsed == pc # "off" /\ opts # NoLocals

\* the whole days from the instant `from` to the instant `to`, 0 when there is none
WholeDays(from, to) ==
  IF to - from < MsPerDay THEN 0
  ELSE CHOOSE k \in 1..31 : k * MsPerDay <= to - from /\ to - from < (k + 1) * MsPerDay

\* the Number x is a Number nearest to y * m / d, for a Number y and integers m, d > 0:
\* x * d and y * m differ by at most d times half a unit in the last place of x
NearestTo(x, y, m, d) ==
  IF y = Zero THEN x = Zero
  ELSE /\ x # Zero /\ ~IsSpecial(x)
       /\ LET e == IF x.exp - 1 < y.exp THEN x.exp - 1 ELSE y.exp
               a == BigShift(BigTimes(x.sig, d), x.exp - e)
               b == BigShift(BigTimes(y.sig, m), y.exp - e)
               h == BigShift(BigOf(d), x.exp - 1 - e)
           IN BigLeq(a, BigAdd(b, h)) /\ BigLeq(b, BigAdd(a, h))

\* C21: whenever run has set a date range of two valid dates, dayCount is the larger of
\* 1 and the whole days from startDate to endDate; the projections run reports are
\* daily = estimated cost / dayCount, weekly = daily * 7 and monthly = daily * 30 in
\* Number arithmetic, finite also for a range within one day.
C21_ProjectionsOverDays ==
  /\ (OptionsParsed /\ opts.startDate.valid /\ opts.endDate.valid) =>
       /\ ~opts.dayCount.nan
       /\ opts.dayCount.value >= 1
       /\ opts.dayCount.value =
            (IF WholeDays(opts.startDate.time, opts.endDate.time) > 1
             THEN WholeDays(opts.startDate.time, opts.endDate.time) ELSE 1)
  /\ (pc = "done" /\ outcome.kind = "report") =>
       /\ opts.startDate.valid /\ opts.endDate.valid
       /\ \A p \in {outcome.billing.projections} : \A cost \in {outcome.billing.estimatedCost} :
            /\ NearestTo(p.daily, cost, 1, opts.dayCount.value)
            /\ NearestTo(p.weekly, p.daily, 7, 1)
            /\ NearestTo(p.monthly, p.daily, 30, 1)

\* a report for --start 2024-01-10 run at noon of that day: no whole day lies between
\* the two dates
C21_Witness ==
  /\ pc = "done" /\ outcome.kind = "report"
  /\ opts.endDate.time - opts.startDate.time = MsPerDay \div 2
  /\ opts.dayCount = IntNumber(1)
  /\ outcome.billing.projections.daily = outcome.billing.estimatedCost
  /\ outcome.billing.projections.daily # Zero

\* a report over three whole days
C21_WitnessThreeDays ==
  /\ pc = "done" /\ outcome.kind = "report"
  /\ opts.dayCount = IntNumber(3)
  /\ outcome.billing.billing.totalMinutes = 150

\* the end date lies before the start date
C21_WitnessEndBeforeStart ==
  /\ OptionsParsed /\ opts.startDate.valid /\ opts.endDate.valid
  /\ opts.endDate.time < opts.startDate.time
  /\ opts.dayCount = IntNumber(1)

\* text[i..j] is an entry of the comma-separated text: it holds no comma and is
\* bounded by commas or by the ends of the text (j = i - 1: the empty entry)
IsEntry(text, i, j) ==
  /\ i \in 1..(Len(text) + 1) /\ j \in (i - 1)..Len(text)
  /\ i = 1 \/ text[i - 1] = ","
  /\ j = Len(text) \/ text[j + 1] = ","
  /\ \A k \in i..j : text[k] # ","

\* the entry names one of the three OS types between its first colon and its second
\* one (or its end), in capitals or not
NamesOS(entry, colon) ==
  \E n \in DOMAIN OSTexts :
    /\ \A k \in 1..Len(OSTexts[n]) :
         colon + k <= Len(entry) /\ LowerChar(entry[colon + k]) = OSTexts[n][k]
    /\ colon + Len(OSTexts[n]) = Len(entry) \/ entry[colon + Len(OSTexts[n]) + 1] = ":"

\* the entry, spaces around it apart, is a pattern of at least one character, a
\* colon, and one of the three OS types
WellFormedEntry(text, i, j) ==
  \E a \in i..j : \E b \in a..j :
    /\ text[a] # " " /\ text[b] # " "
    /\ \A k \in (i..(a - 1)) \cup ((b + 1)..j) : text[k] = " "
    /\ \E colon \in (a + 1)..b :
         /\ text[colon] = ":"
         /\ \A k \in a..(colon - 1) : text[k] # ":"
         /\ NamesOS(SubSeq(text, a, b), colon - a + 1)

Malformed(text) ==
  \E i \in 1..(Len(text) + 1) : \E j \in (i - 1)..Len(text) :
    IsEntry(text, i, j) /\ ~WellFormedEntry(text, i, j)

\* the number of entries of the text
Entries(text) == Cardinality({k \in 1..Len(text) : text[k] = ","}) + 1

\* C26: when run parses a --map value with an entry without a pattern, without an OS
\* or with an OS other than linux, windows and macos, no mapping list is assigned and
\* run exits with code 1 without having called getAuth, read the cache or sent a
\* request; for every other value the list holds one mapping per entry, each with
\* one of the three OS types.
C26_MalformedMapIsFatal ==
  /\ (pc \notin {"off", "start"} /\ ~world.clearCache /\ Truthy(world.map)) =>
       IF Malformed(world.map.text)
       THEN /\ pc = "done" /\ outcome.kind = "error" /\ outcome.exitCode = 1
            /\ opts = NoLocals
            /\ ~opts.auth /\ ~opts.stats
            /\ \A t \in Tiers : ~tier[t].called /\ tier[t].reads = 0 /\ tier[t].requests = 0
            /\ repoList = << >> /\ runList = << >> /\ jobList = << >>
       ELSE /\ OptionsParsed
            /\ Len(opts.labelMappings) = Entries(world.map.text)
            /\ \A k \in DOMAIN opts.labelMappings :
                 opts.labelMappings[k].os \in {"linux", "windows", "macos"}
  /\ pc # "off" => \A k \in DOMAIN opts.labelMappings : opts.labelMappings[k].os # "unknown"

\* --map "r*:linux,m*:bsd" with caching on and a saved list of repositories: run has
\* exited with code 1
C26_Witness ==
  /\ pc = "done" /\ outcome.kind = "error" /\ outcome.exitCode = 1
  /\ world.map = Given(MapSecondBad)
  /\ ~world.clearCache /\ world.cache /\ cacheFiles # << >>

\* a well-formed --map of two entries was parsed and used for the report
C26_WitnessWellFormed ==
  /\ pc = "done" /\ outcome.kind = "report"
  /\ Len(opts.labelMappings) = 2 /\ opts.labelMappings[2].os = "macos"

\* a --start or --end value is given that is no valid date
InvalidDateGiven ==
  \/ world.start.given /\ ~parseISO(world.start.text).valid
  \/ world.end.given /\ ~parseISO(world.end.text).valid

\* C27 as stated: an invocation with a --start or --end value that is no valid date
\* sends no request, and ends with an error exit.
C27_Stated ==
  (pc # "off" /\ ~world.clearCache /\ InvalidDateGiven) =>
    /\ \A t \in Tiers : tier[t].requests = 0
    /\ pc = "done" => outcome.exitCode = 1

\* the ids of a job list, in order
JobIds(jobs) == [i \in 1..Len(jobs) |-> jobs[i].id]

NoRepeats(xs) == \A i, j \in 1..Len(xs) : xs[i] = xs[j] => i = j

\* the API holds every job once
ApiJobsDistinct == NoRepeats(JobIds(bInput))

\* the completed jobs the API holds for the runs handed to fetchAllJobs
CompletedOfRuns ==
  {j \in 1..Len(bInput) : /\ HasCompleted(bInput[j])
                          /\ \E r \in 1..Len(bRuns) : bRuns[r].id = bInput[j].run_id}

\* C31: with every listing answered, fetchAllJobs returns each completed job the API
\* holds for a run of its input, and no job id twice, whatever the input run list is,
\* also one naming a run id twice
C31_Stated ==
  (bpc = "fetched" /\ ApiJobsDistinct) =>
    /\ \A j \in CompletedOfRuns : \E i \in 1..Len(bFetched) : bFetched[i].id = bInput[j].id
    /\ NoRepeats(JobIds(bFetched))

\* the element of a tier's result comes from the listing of parent i
BelongsTo(t, x, i) ==
  /\ i \in DOMAIN Parents(t)
  /\ IF t = "runs" THEN x.repository.full_name = Parents(t)[i].full_name
     ELSE x.run_id = Parents(t)[i].id

\* the fetch function of tier t has just returned to run
JustReturned(t) == tier[t].called /\ pc = (IF t = "runs" THEN "gotRuns" ELSE "gotJobs")

\* the worker of parent j completed before the worker of parent i, both with a
\* result that is not empty
CompletedBefore(t, j, i) ==
  /\ i \in DOMAIN Workers(t) /\ j \in DOMAIN Workers(t)
  /\ \E a, b \in DOMAIN fnCall.arrived[t] :
       a < b /\ fnCall.arrived[t][a] = j /\ fnCall.arrived[t][b] = i

\* in the result, what parent j contributed stands before what parent i contributed
StandsBefore(t, j, i) ==
  \A a, b \in DOMAIN Returned(t) :
    (BelongsTo(t, Returned(t)[a], j) /\ BelongsTo(t, Returned(t)[b], i)) => a < b

\* C32 as stated: the runs that fetchOrgWorkflowRuns returns and the jobs that
\* fetchAllJobs returns stand in the order in which the workers complete: what a
\* worker that completed earlier found stands before what a later one found.
C32_Stated ==
  \A t \in {"runs", "jobs"} :
    (JustReturned(t) /\ ~tier[t].hit) =>
      \A i, j \in DOMAIN Workers(t) : CompletedBefore(t, j, i) => StandsBefore(t, j, i)

\* the place of the parent whose listing the element comes from
ParentIndex(t, x) == CHOOSE i \in DOMAIN Parents(t) : BelongsTo(t, x, i)

\* C32: the runs that fetchOrgWorkflowRuns returns stand in the order of the input
\* repositories and the jobs that fetchAllJobs returns in the order of the input runs,
\* whatever the order in which the workers complete; what one listing returned keeps
\* the order the API answered it in (the server answers in the order of the ids).
C32_InputOrder ==
  \A t \in {"runs", "jobs"} :
    (JustReturned(t) /\ ~tier[t].hit) =>
      /\ \A a \in DOMAIN Returned(t) : \E i \in DOMAIN Parents(t) : BelongsTo(t, Returned(t)[a], i)
      /\ \A a, b \in DOMAIN Returned(t) :
           a < b => /\ ParentIndex(t, Returned(t)[a]) <= ParentIndex(t, Returned(t)[b])
                    /\ ParentIndex(t, Returned(t)[a]) = ParentIndex(t, Returned(t)[b])
                         => Returned(t)[a].id < Returned(t)[b].id

\* three repositories listed two at a time; the task of the first one completed last
\* (the last progress callback reported its two runs), after the task of the third
\* one, and yet its runs stand first
C32_Witness ==
  /\ tier["runs"].called /\ ~tier["runs"].hit /\ TierReturned("runs")
  /\ Len(repoList) = 3 /\ opts.concurrency = 2
  /\ Len(runList) = 3
  /\ tier["runs"].last.runCount = 2
  /\ BelongsTo("runs", runList[1], 1) /\ BelongsTo("runs", runList[3], 3)
  /\ tier["jobs"].called /\ ~tier["jobs"].hit /\ TierReturned("jobs") /\ Len(jobList) = 4

\* the listing has returned
Listed(fn) == fnCall.phase = "returned" /\ fnCall.fn = fn

\* the item is one the listing keeps: a run created inside [since, until], a job
\* with a completed_at
Kept(item) ==
  IF fnCall.fn = "listWorkflowRuns"
  THEN fnCall.range.since <= item.created_at /\ item.created_at <= fnCall.range.until
  ELSE item.completed_at # NoTime

\* the places of the kept items among all the items the server holds
KeptPlaces == {k \in DOMAIN fnCall.items : Kept(fnCall.items[k])}

\* the number of kept items before place k
KeptBefore(k) == Cardinality({h \in KeptPlaces : h < k})

\* C33: listWorkflowRuns and listRunJobs request every page the server has and return
\* the kept items of all pages in the order of the pages; when a page request fails,
\* also after pages that were received, they return the empty list.
C33_AllPagesOrNothing ==
  \A fn \in {"listWorkflowRuns", "listRunJobs"} :
    Listed(fn) =>
      IF fnCall.failAt = 0
      THEN /\ fnCall.requests = NumPages(Len(fnCall.items))
           /\ Len(fnCall.result) = Cardinality(KeptPlaces)
           /\ \A k \in KeptPlaces : fnCall.result[KeptBefore(k) + 1].id = fnCall.items[k].id
      ELSE /\ fnCall.requests = fnCall.failAt
           /\ fnCall.result = << >>

\* the request of the third page failed after two pages that held kept items
C33_Witness ==
  /\ fnCall.phase = "returned"
  /\ fnCall.failAt = 3 /\ fnCall.requests = 3
  /\ {1, 2} \subseteq KeptPlaces
  /\ fnCall.result = << >>

\* three pages were received and every one held a kept item
C33_WitnessAllPages ==
  /\ fnCall.phase = "returned"
  /\ fnCall.failAt = 0 /\ fnCall.requests = 3
  /\ Len(fnCall.result) = 3

\* C34: every run that listWorkflowRuns returns was created inside [since, until],
\* whatever runs the API answers with, and every run the API answered with that was
\* created inside [since, until] is returned: a run of the first or of the last day
\* of the query created before since or after until is dropped.
C34_InstantRange ==
  (Listed("listWorkflowRuns") /\ fnCall.failAt = 0) =>
    /\ \A a \in DOMAIN fnCall.result :
         /\ fnCall.range.since <= fnCall.result[a].created_at
         /\ fnCall.result[a].created_at <= fnCall.range.until
    /\ \A k \in DOMAIN fnCall.items :
         (\E a \in DOMAIN fnCall.result : fnCall.result[a].id = fnCall.items[k].id)
           <=> Kept(fnCall.items[k])

\* the API answered with a run created on the day of since before since, a run created
\* on the day of until after until and a run inside the range: only the last is returned
C34_Witness ==
  /\ Listed("listWorkflowRuns") /\ fnCall.failAt = 0
  /\ \E k \in DOMAIN fnCall.items :
       /\ DayOf(fnCall.items[k].created_at) = DayOf(fnCall.range.since)
       /\ fnCall.items[k].created_at < fnCall.range.since
  /\ \E k \in DOMAIN fnCall.items :
       /\ DayOf(fnCall.items[k].created_at) = DayOf(fnCall.range.until)
       /\ fnCall.items[k].created_at > fnCall.range.until
  /\ Len(fnCall.result) = 1

\* C35 as stated: an override pattern matches a label only as a whole and without
\* regard to case, * standing for any sequence of characters and every other character
\* of the pattern for itself: runner-* matches runner-42-prod and runner- but not
\* my-runner-1, and a pattern without * matches the labels equal to it.
C35_Stated ==
  (fnCall.phase = "returned" /\ fnCall.fn = "matchesPattern") =>
    /\ ~fnCall.result.threw
    /\ fnCall.result.matches = GlobMatches(fnCall.label, fnCall.typed)
    /\ (\A i \in DOMAIN fnCall.typed : fnCall.typed[i] # "*") =>
         (fnCall.result.matches <=> toLowerCase(fnCall.label) = toLowerCase(fnCall.typed))

\* the record as a mapping of its keys to the objects they hold
AsMap(heap, record) ==
  [k \in {record[g].key : g \in DOMAIN record} |-> heap[record[PlaceOf(record, k)].ref]]

RECURSIVE SumOfDays(_, _, _)
\* the sum of the field over the entries at the places of the drawn byDate
SumOfDays(given, places, field) ==
  IF places = {} THEN 0
  ELSE LET i == CHOOSE x \in places : TRUE
       IN given[i].data[field] + SumOfDays(given, places \ {i}, field)

RECURSIVE SumOfBuckets(_, _, _)
\* the sum of the field over the objects of the record
SumOfBuckets(heap, record, field) ==
  IF Len(record) = 0 THEN 0
  ELSE heap[Head(record).ref][field] + SumOfBuckets(heap, Tail(record), field)

\* the Monday on or before each drawn day, by the calendar of 2024
MondayOf(key) ==
  CASE key = <<"2","0","2","4","-","0","1","-","2","8">> -> <<"2","0","2","4","-","0","1","-","2","2">>
    [] key = <<"2","0","2","4","-","0","1","-","2","9">> -> <<"2","0","2","4","-","0","1","-","2","9">>
    [] key = <<"2","0","2","4","-","0","1","-","3","1">> -> <<"2","0","2","4","-","0","1","-","2","9">>
    [] key = <<"2","0","2","4","-","0","2","-","0","1">> -> <<"2","0","2","4","-","0","1","-","2","9">>
    [] key = <<"2","0","2","4","-","0","2","-","0","5">> -> <<"2","0","2","4","-","0","2","-","0","5">>
    [] key = <<"2","0","2","4","-","0","3","-","0","1">> -> <<"2","0","2","4","-","0","2","-","2","6">>

\* the bucket a day belongs to
PeriodOf(key, groupBy) == IF groupBy = "week" THEN MondayOf(key) ELSE SubSeq(key, 1, 7)

BucketFields == {"minutes", "billableMinutes", "jobCount"}

Regrouped == fnCall.phase = "returned" /\ fnCall.fn = "groupByPeriod"

\* C36: groupByPeriod leaves byDate and its objects as they were; for day it returns
\* byDate itself; for week and month the returned record has one bucket for each
\* period that holds a day of byDate, keyed by the Monday on or before the day or by
\* its YYYY-MM, each bucket holds the sums of minutes, billableMinutes and jobCount of
\* the days of its period, so that the sums over the buckets are the sums over byDate,
\* and the order of the entries of byDate changes nothing but the order of the keys.
C36_Rebucketing ==
  Regrouped =>
    LET given == fnCall.given
        before == [i \in DOMAIN given |-> given[i].data]
        grouped == fnCall.result
    IN /\ fnCall.byDate = [i \in DOMAIN given |-> [key |-> given[i].key, ref |-> i]]
       /\ \A i \in DOMAIN given : fnCall.heap[i] = given[i].data
       /\ fnCall.groupBy = "day" => grouped = fnCall.byDate
       /\ fnCall.groupBy # "day" =>
            /\ {grouped[g].key : g \in DOMAIN grouped}
                 = {PeriodOf(given[i].key, fnCall.groupBy) : i \in DOMAIN given}
            /\ \A g, h \in DOMAIN grouped : grouped[g].key = grouped[h].key => g = h
            /\ \A g \in DOMAIN grouped : \A f \in BucketFields :
                 fnCall.heap[grouped[g].ref][f]
                   = SumOfDays(given, {i \in DOMAIN given :
                                         PeriodOf(given[i].key, fnCall.groupBy) = grouped[g].key}, f)
            /\ \A f \in BucketFields :
                 SumOfBuckets(fnCall.heap, grouped, f) = SumOfDays(given, DOMAIN given, f)
       /\ \A perm \in Permutations(DOMAIN given) :
            LET other == groupByPeriod(before, Permuted(fnCall.byDate, perm), fnCall.groupBy)
            IN AsMap(other.heap, other.grouped) = AsMap(fnCall.heap, grouped)

\* three days grouped by week: two of one week, in two months, and one of the week
\* before, given with the later week first
C36_Witness ==
  /\ Regrouped /\ fnCall.groupBy = "week"
  /\ Len(fnCall.given) = 3
  /\ fnCall.given[1].key = <<"2","0","2","4","-","0","2","-","0","1">>
  /\ fnCall.given[2].key = <<"2","0","2","4","-","0","1","-","2","8">>
  /\ fnCall.given[3].key = <<"2","0","2","4","-","0","1","-","3","1">>
  /\ Len(fnCall.result) = 2
  /\ fnCall.heap[fnCall.result[1].ref].minutes = 6

\* the same days grouped by month: the two days of the one week fall into two months
C36_WitnessMonth ==
  /\ Regrouped /\ fnCall.groupBy = "month"
  /\ Len(fnCall.given) = 3
  /\ fnCall.given[1].key = <<"2","0","2","4","-","0","2","-","0","1">>
  /\ fnCall.given[3].key = <<"2","0","2","4","-","0","1","-","3","1">>
  /\ fnCall.given[2].key = <<"2","0","2","4","-","0","1","-","2","8">>
  /\ Len(fnCall.result) = 2
  /\ fnCall.result[1].key = <<"2","0","2","4","-","0","2">>

RECURSIVE SumField(_, _, _)
\* the sum of map[k][field] over the keys
SumField(map, keys, field) ==
  IF keys = {} THEN 0
  ELSE LET k == CHOOSE x \in keys : TRUE
       IN map[k][field] + SumField(map, keys \ {k}, field)

\* the rollups of an AggregatedBilling
Rollups(billing) == << billing.byOS, billing.byWorkflow, billing.byRepo, billing.byDate >>

\* C37: in every result of aggregateBilling the minutes of the entries of byOS, of
\* byWorkflow, of byRepo and of byDate each sum to totalMinutes and their
\* billableMinutes to totalBillableMinutes, the jobCount of the entries of byWorkflow
\* sum to jobCount, jobs has jobCount elements, and for each of the four OS keys
\* byOS[os].billableMinutes = byOS[os].minutes * MULTIPLIERS[os].
C37_RollupsPartitionTotals ==
  Aggregated =>
    /\ \A n \in 1..4 :
         LET map == Rollups(bResult)[n]
         IN /\ SumField(map, DOMAIN map, "minutes") = bResult.totalMinutes
            /\ SumField(map, DOMAIN map, "billableMinutes") = bResult.totalBillableMinutes
    /\ SumField(bResult.byWorkflow, DOMAIN bResult.byWorkflow, "jobCount") = bResult.jobCount
    /\ Len(bResult.jobs) = bResult.jobCount
    /\ DOMAIN bResult.byOS = OSTypes
    /\ \A os \in OSTypes :
         bResult.byOS[os].billableMinutes = bResult.byOS[os].minutes * MULTIPLIERS[os]

\* three completed jobs of two repositories, two days and two OS, one of them macos
C37_Witness ==
  /\ Aggregated
  /\ bResult.jobCount = 3
  /\ Cardinality(DOMAIN bResult.byRepo) = 2
  /\ Cardinality(DOMAIN bResult.byDate) = 2
  /\ bResult.byOS["macos"].minutes > 0 /\ bResult.byOS["windows"].minutes > 0
  /\ bResult.totalBillableMinutes > bResult.totalMinutes

\* a listing of the tier failed and was taken as the empty list
SomeListingFailed(t) == \E i \in DOMAIN Workers(t) : Workers(t)[i].failed

\* the tier's result lacks what the server holds for one of the parents
LacksAParent(t) ==
  \E i \in DOMAIN Parents(t) :
    /\ OnServer(t, Parents(t)[i]) # << >>
    /\ \A a \in DOMAIN Returned(t) : ~BelongsTo(t, Returned(t)[a], i)

\* C38: a tier in which a listing failed still returns, with the other listings'
\* items, and with caching on calls setCache with this result: the entry under its key
\* then holds the list without the failed parent's items; a tier function that finds a
\* fresh entry under its key returns the entry's list, complete or not, starts no task
\* and sends no request.
C38_IncompleteResultCached ==
  \A t \in {"runs", "jobs"} :
    /\ (JustReturned(t) /\ ~tier[t].hit /\ SomeListingFailed(t)) =>
         /\ Returned(t) = Fetched(t)
         /\ opts.useCache =>
              /\ tier[t].writes = 1
              /\ storage = "rw" =>
                   /\ FileAt(cacheFiles, tier[t].path).kind = "json"
                   /\ FileAt(cacheFiles, tier[t].path).data = StringifyData(Returned(t))
                   /\ FileAt(cacheFiles, tier[t].path).timestamp = now
    /\ (tier[t].called /\ opts.useCache /\ tier[t].fresh) =>
         /\ tier[t].hit
         /\ Returned(t) = tier[t].entry.data
         /\ Workers(t) = << >>
         /\ tier[t].requests = 0

\* the second invocation found the runs of the first one in the cache, in which the
\* listing of a repository with runs had failed: it returned the list without them
C38_Witness ==
  /\ inv = 2 /\ failures = 1
  /\ tier["runs"].called /\ tier["runs"].hit /\ TierReturned("runs")
  /\ runW = << >> /\ tier["runs"].requests = 0
  /\ Len(repoList) = 3 /\ Len(runList) >= 1
  /\ LacksAParent("runs")

\* the same for the jobs of a run
C38_WitnessJobs ==
  /\ inv = 2 /\ failures = 1
  /\ tier["jobs"].called /\ tier["jobs"].hit /\ TierReturned("jobs")
  /\ jobW = << >> /\ tier["jobs"].requests = 0
  /\ Len(jobList) >= 1
  /\ LacksAParent("jobs")

\* a tier has just saved a result from which a failed listing is missing
C38_WitnessSaved ==
  /\ tier["runs"].called /\ ~tier["runs"].hit /\ TierReturned("runs") /\ SomeListingFailed("runs")
  /\ opts.useCache /\ storage = "rw" /\ tier["runs"].writes = 1
  /\ LacksAParent("runs")

\* the request is over: answered, or given up
RequestOver == client.phase \in {"done", "failed"}

\* every error the request met was a primary or secondary rate limit
OnlyRateLimited ==
  \A a \in client.seen : a.status >= 400 => a \in PrimaryAnswers \cup SecondaryAnswers

\* C39 as stated: every call of the rate-limit notification callback is followed by a
\* retry of the request: a request that met no error but rate limits has seen, when it
\* is over, as many notifications as retries, and the response after which it is given
\* up has brought no notification.
C39_Stated ==
  (RequestOver /\ OnlyRateLimited) =>
    /\ client.notified = client.sends - 1
    /\ client.phase = "failed" => client.notified < client.sends

\* C40: with two invocations interleaving getCache and setCache on one key, a
\* getCache removes the file of the key only when the entry standing at the path
\* at the moment of the removal is expired (for the ttl of this get) or of another
\* version, so a fresh entry the other invocation wrote after this get's read is
\* never removed; and a get that returns data returns the data of one setCache
RemovesEntry(p) ==
  /\ fnCall.phase = "shared" /\ fnCall.proc[p].pc = "unlink"
  /\ fnCall'.proc[p].pc = "idle"
  /\ FileAt(cacheFiles, SharedPath).kind = "json"
  /\ SharedPath \notin DOMAIN cacheFiles'
ReturnsData(p) ==
  /\ fnCall'.phase = "shared"
  /\ fnCall'.proc[p].pc = "idle"
  /\ fnCall'.proc[p].ret.op = "get"
  /\ fnCall'.proc[p].ret.hit
InitialData == {e.data : e \in {o \in OldEntries : o.kind = "json"}}
C40_Stated ==
  [][\A p \in Invocations :
       /\ RemovesEntry(p) => Outdated(cacheFiles[SharedPath], fnCall.proc[p].ttl, now)
       /\ ReturnsData(p) => fnCall'.proc[p].ret.data \in fnCall'.written \cup InitialData]_vars

====
